---- MODULE Spec2Model ----
(***************************************************************************)
(* Batch question answering: run.py drives one handle_question task per    *)
(* pending record of the batch file, bounded by a semaphore.  Each task    *)
(* runs the QA pipeline (rewriter, preprocessor, filter, planner,          *)
(* executor, combiner, postprocessor) under a wall-clock budget; the       *)
(* executor's exec_task is the self-correcting execution loop.             *)
(***************************************************************************)
EXTENDS Integers, Sequences, FiniteSets, TLC

\* ------------------------------------------------------------------ bounds
MaxQuestions == 2
MaxConcurrency == 2
MaxTextLen == 2
MaxCallers == 3
MaxCaseNumLen == 4
MaxEntities == 3
MaxMentions == 2

\* ------------------------------------------------------- program constants
STOP_AFTER_ATTEMPT == 3
EXEC_LOOP_RANGE == 4
BALANCE_DEPLETION_EXIT_CODE == 2
NORMAL_EXIT_CODE == 0

\* ------------------------------------------------------------- value sets
QIds == 1..MaxQuestions
Alphabet == {"a", "b"}
TextsUpTo(len) == UNION {[1..n -> Alphabet] : n \in 0..len}
Texts == TextsUpTo(MaxTextLen)
Codes == {"c1", "c2"}

NoCode == "none"
NoMessage == [kind |-> "none", content |-> NoCode]
NoRunResult == [success |-> FALSE, result |-> <<>>, ename |-> "", evalue |-> <<>>]
UnsetTask == [set |-> FALSE, result |-> <<>>, code |-> NoCode, finished |-> FALSE]

\* Answers are token sequences; the empty sequence is the empty string.
\* ERROR_PREFIX stands for the literal prefix of every recorded error answer.
ERROR_PREFIX == "ERROR_PREFIX"
EmptyAnswer == <<>>
PipelineAnswer(q) == <<"answer", q>>
PriorAnswer == <<"answer", 0>>
TimeoutAnswer == <<ERROR_PREFIX, ": timeout">>
TimeoutAnswerWith(a) == <<ERROR_PREFIX, ": timeout ", a>>
RetryErrorAnswer == <<ERROR_PREFIX, ": RetryError">>
ExceptionAnswer(e) == <<ERROR_PREFIX, ": ", e>>
StartsWithError(a) == Len(a) > 0 /\ a[1] = ERROR_PREFIX

\* The error classes a failed sandbox execution may report.
ErrorClasses ==
    {[ename |-> "NameError", evalue |-> <<"name", "x">>],
     [ename |-> "RunCodeException", evalue |-> <<"KeyError">>],
     [ename |-> "RunCodeException", evalue |-> <<"IndentationError", "line", "2">>]}

\* The run results a sandbox may return when it prints texts of the set T and
\* fails with the error classes E.
RunResults(T, E) ==
    {[success |-> TRUE, result |-> t, ename |-> "", evalue |-> <<>>] : t \in T}
    \cup {[success |-> FALSE, result |-> t, ename |-> c.ename, evalue |-> c.evalue] :
              t \in T, c \in E}

\* Outcomes of one call to the completion service.
LLMOutcomes == {"ok", "TransientError", "LLMBalanceDepletionError"}

VARIABLES
    env,            \* what the collaborators of this run can answer
    bpc,            \* position of process_questions / __main__
    exit_code,      \* process exit code, -1 while running
    max_concurrency,
    sem,            \* free permits of the semaphore
    file,           \* batch file: id -> [answer, sue]
    task_exc,       \* result of each handle_question task as gather sees it
    pc,             \* position of each handle_question task
    attempt,        \* tenacity attempt number of the stage in progress
    iter,           \* loop index of exec_task's for loop
    message,        \* exec_task's local `message`
    run_result,     \* exec_task's local `run_result`
    latest_output,  \* Executor._latest_output
    task,           \* the plan's single Task
    spaces,         \* heap of SolutionSpace objects
    coders,         \* heap of Coder objects
    ssRef,          \* handle_question's local `solution_space`
    coderRef,       \* handle_question's local `coder`
    execCount,      \* sandbox executions requested for the task in progress
    seen_len,       \* longest result of an attempt outside the malformed class
    seen_len_all,   \* longest result of any attempt
    updates,        \* update_result_in_file calls so far, per question
    timed_out,      \* the main pipeline hit its budget
    fb_fault,       \* a collaborator failed or was too slow in the fallback
    billing_raised, \* the completion service has raised LLMBalanceDepletionError
    caller_pc,      \* position of each caller of one Coder's run_code
    coder_lock,     \* that Coder's lock: [locked, waiters]
    executed_code,  \* that Coder's executed_code[0]
    coder_output,   \* that Coder's latest_output
    cn_pc,          \* which case-number functions have been applied
    cn_input,       \* the text they were given
    cn_text,        \* the text as it stands
    cn_aug,         \* what augment_case_num returned
    flt_pc,         \* whether filter_entities has been applied
    flt_input,      \* the list it was given
    flt_output,     \* the list it returned
    pre_pc,         \* position of Preprocessor._run_once
    pre_attempt,    \* tenacity attempt number of _run_once
    pre_arg,        \* the question _run_once was called with
    pre_raw,        \* what the completion service recognizes in it
    pre_question,   \* _run_once's local `question`
    named_entities, \* _run_once's local `named_entities`
    queried_set,    \* _run_once's local `queried_set`
    queries,        \* contents query_named_entity was called with, in order
    pre_i,          \* index of the mention the loop in progress is at
    pre_lookups,    \* requests the query in progress has yet to make
    pre_asked,      \* augment_name_by_llm has answered in that query
    res_json,       \* the store's latest answer
    NER,            \* _run_once's local `NER`
    pre_result,     \* what _run_once returned
    pre_exc         \* the exception that left _run_once

\* The state of the batch run, and the state of the components run on their own.
runVars == <<env, bpc, exit_code, max_concurrency, sem, file, task_exc, pc, attempt,
             iter, message, run_result, latest_output, task, spaces, coders,
             ssRef, coderRef, execCount, seen_len, seen_len_all, updates,
             timed_out, fb_fault, billing_raised>>
coderVars == <<caller_pc, coder_lock, executed_code, coder_output>>
caseNumVars == <<cn_pc, cn_input, cn_text, cn_aug>>
filterVars == <<flt_pc, flt_input, flt_output>>
preVars == <<pre_pc, pre_attempt, pre_arg, pre_raw, pre_question, named_entities,
             queried_set, queries, pre_i, pre_lookups, pre_asked, res_json, NER,
             pre_result, pre_exc>>
unitVars == <<coderVars, caseNumVars, filterVars, preVars>>

vars == <<runVars, unitVars>>

batchVars == <<env, bpc, exit_code, max_concurrency>>
frameVars == <<iter, message, run_result>>
execVars == <<iter, message, run_result, latest_output, task, spaces,
              execCount, seen_len, seen_len_all>>
exitVars == <<file, task_exc, sem, coders, updates>>
hqVars == <<ssRef, coderRef, timed_out, fb_fault>>

\* ------------------------------------------------------------ retry policy
\* qwergpt.utils.should_retry: every error is retryable except depleted billing.
ShouldRetry(e) == e # "LLMBalanceDepletionError"

\* The wrapper stops one attempt too late.
RetryDecision_OneMore(att, e) ==
    IF ~ShouldRetry(e) THEN "reraise"
    ELSE IF att > STOP_AFTER_ATTEMPT THEN "RetryError"
    ELSE "again"

\* The wrapper retries whatever the error is.
RetryDecision_AnyError(att, e) ==
    IF att >= STOP_AFTER_ATTEMPT THEN "RetryError" ELSE "again"

RetryDecision(att, e) ==
    IF ~ShouldRetry(e) THEN "reraise"
    ELSE IF att >= STOP_AFTER_ATTEMPT THEN "RetryError"
    ELSE "again"

\* The exception that leaves a retry-wrapped call once the wrapper gives up.
RetryRaised(att, e) == IF RetryDecision(att, e) = "reraise" THEN e ELSE "RetryError"

\* Python call binding: a call is accepted when it supplies no more positional
\* arguments than there are parameters, names only existing parameters and
\* leaves no parameter without a value.
Binds(params, npos, kwnames) ==
    /\ npos <= Len(params)
    /\ \A k \in kwnames : \E i \in (npos + 1)..Len(params) : params[i] = k
    /\ \A i \in (npos + 1)..Len(params) : params[i] \in kwnames

CombinerRunParams == <<"pipeline_data">>
PostprocessorRunParams == <<"pipeline_data">>
PreprocessorRunParams == <<"pipeline_data">>

\* ---------------------------------------------------------- SolutionSpace
\* set_result keeps the stored text unless the new one is strictly longer.
set_result(sp, text) ==
    IF Len(text) > Len(sp.result) THEN [sp EXCEPT !.result = text] ELSE sp

set_executed_code(sp, code) == [sp EXCEPT !.code = code]

NewSolutionSpace == [result |-> <<>>, code |-> NoCode]
NewCoder == [shutdown |-> FALSE]

\* ------------------------------------------------------------------- Init
\* Only records without any answer are taken up again.
Pending_EmptyOnly(rec) == rec.answer = EmptyAnswer

\* A record is pending when its answer is empty or starts with the error prefix.
Pending(rec) == rec.answer = EmptyAnswer \/ StartsWithError(rec.answer)

InitialRecords ==
    {[answer |-> a, sue |-> s] : a \in {EmptyAnswer, TimeoutAnswer, PriorAnswer},
                                 s \in BOOLEAN}

InitRun(records) ==
    /\ bpc = "start"
    /\ exit_code = -1
    /\ sem = max_concurrency
    /\ file \in [QIds -> records]
    /\ task_exc = [q \in QIds |-> "none"]
    /\ pc = [q \in QIds |-> "idle"]
    /\ attempt = [q \in QIds |-> 1]
    /\ iter = [q \in QIds |-> 0]
    /\ message = [q \in QIds |-> NoMessage]
    /\ run_result = [q \in QIds |-> NoRunResult]
    /\ latest_output = [q \in QIds |-> <<>>]
    /\ task = [q \in QIds |-> UnsetTask]
    /\ spaces = <<>>
    /\ coders = <<>>
    /\ ssRef = [q \in QIds |-> 0]
    /\ coderRef = [q \in QIds |-> 0]
    /\ execCount = [q \in QIds |-> 0]
    /\ seen_len = [q \in QIds |-> 0]
    /\ seen_len_all = [q \in QIds |-> 0]
    /\ updates = [q \in QIds |-> 0]
    /\ timed_out = [q \in QIds |-> FALSE]
    /\ fb_fault = [q \in QIds |-> FALSE]
    /\ billing_raised = FALSE

AnsweredRecord == [answer |-> PriorAnswer, sue |-> FALSE]

\* ------------------------------------------------------ one Coder on its own
Callers == 1..MaxCallers

\* BaseCoder.__init__: the lock of a new Coder is free and nobody waits for it.
NewLock == [locked |-> FALSE, waiters |-> <<>>]

InitCoder ==
    /\ caller_pc = [c \in Callers |-> "idle"]
    /\ coder_lock = NewLock
    /\ executed_code = NoCode
    /\ coder_output = <<>>

IdleCoder == InitCoder

IdleCaseNum ==
    /\ cn_pc = "idle"
    /\ cn_input = <<>>
    /\ cn_text = <<>>
    /\ cn_aug = {}

IdleFilter ==
    /\ flt_pc = "idle"
    /\ flt_input = <<>>
    /\ flt_output = <<>>

\* The store's answer when it has no record.
Empty == [empty |-> TRUE, value |-> <<>>]

IdlePre ==
    /\ pre_pc = "idle"
    /\ pre_attempt = 1
    /\ pre_arg = <<>>
    /\ pre_raw = <<>>
    /\ pre_question = <<>>
    /\ named_entities = <<>>
    /\ queried_set = {}
    /\ queries = <<>>
    /\ pre_i = 1
    /\ pre_lookups = <<>>
    /\ pre_asked = FALSE
    /\ res_json = Empty
    /\ NER = {}
    /\ pre_result = [query |-> <<>>, ner |-> {}]
    /\ pre_exc = "none"

\* No component is run on its own during a batch run.
InitUnits == IdleCoder /\ IdleCaseNum /\ IdleFilter /\ IdlePre

\* A batch whose first record alone may be pending, against a sandbox and a
\* completion service that can answer anything.
Init ==
    /\ env = [texts |-> Texts, codes |-> Codes, errors |-> ErrorClasses,
              llm |-> LLMOutcomes]
    /\ max_concurrency = 1
    /\ InitRun(InitialRecords)
    /\ \A q \in QIds \ {1} : file[q] = AnsweredRecord
    /\ InitUnits

\* Any batch, with up to MaxConcurrency questions at a time, against a sandbox
\* that prints nothing and never reports malformed code, and a completion
\* service that always writes the same code and fails only for lack of funds.
InitBatch ==
    /\ env = [texts |-> TextsUpTo(0), codes |-> {"c1"},
              errors |-> {c \in ErrorClasses : c.ename = "NameError"},
              llm |-> {"ok", "LLMBalanceDepletionError"}]
    /\ max_concurrency \in 1..MaxConcurrency
    /\ InitRun({r \in InitialRecords : r.answer # TimeoutAnswer})
    /\ InitUnits

\* ------------------------------------------------------- process_questions
\* Reads the file once and creates one task per pending record.
process_questions ==
    /\ bpc = "start"
    /\ bpc' = "gather"
    /\ pc' = [q \in QIds |-> IF Pending(file[q]) THEN "waiting" ELSE "skipped"]
    /\ UNCHANGED <<unitVars, env, exit_code, max_concurrency, attempt, execVars, exitVars,
                   hqVars, billing_raised>>

Finished(q) == pc[q] \in {"skipped", "returned", "raised"}

\* gather without return_exceptions: the first exception ends the wait.
gather_returns_on_first_exception ==
    \/ \A q \in QIds : Finished(q)
    \/ \E q \in QIds : pc[q] = "raised"

\* gather(*tasks, return_exceptions=True) returns once every task is done.
gather_returns == \A q \in QIds : Finished(q)

\* The billing exit code only when every result is the billing error.
main_exit_code_all(results) ==
    IF \A q \in QIds : results[q] = "LLMBalanceDepletionError"
    THEN BALANCE_DEPLETION_EXIT_CODE
    ELSE NORMAL_EXIT_CODE

\* process_questions raises when any result is the billing error, which
\* __main__ turns into its exit code; otherwise the script runs to its end.
main_exit_code(results) ==
    IF \E q \in QIds : results[q] = "LLMBalanceDepletionError"
    THEN BALANCE_DEPLETION_EXIT_CODE
    ELSE NORMAL_EXIT_CODE

\* The rest of process_questions, main and __main__ once gather has returned.
gather_done ==
    /\ bpc = "gather"
    /\ gather_returns
    /\ bpc' = "exited"
    /\ exit_code' = main_exit_code(task_exc)
    /\ UNCHANGED <<unitVars, env, max_concurrency, pc, attempt, execVars, exitVars, hqVars,
                   billing_raised>>

\* ---------------------------------------------------------- file updates
\* The answer written to every record, whatever its id.
update_result_in_file_every_record(f, q, answer) ==
    [r \in DOMAIN f |-> [f[r] EXCEPT !.answer = answer]]

update_result_in_file(f, q, answer) == [f EXCEPT ![q].answer = answer]

\* ------------------------------------------------- handle_question: exits
\* The finally block and the end of the semaphore section: the coder is shut
\* down, the permit is returned, and the objects of the question (its
\* SolutionSpace, its Executor and the frames of its pipeline) are dropped.
Teardown(q) ==
    /\ coders' = [coders EXCEPT ![coderRef[q]].shutdown = TRUE]
    /\ sem' = sem + 1
    /\ spaces' = [spaces EXCEPT ![ssRef[q]] = NewSolutionSpace]
    /\ ssRef' = [ssRef EXCEPT ![q] = 0]
    /\ coderRef' = [coderRef EXCEPT ![q] = 0]
    /\ attempt' = [attempt EXCEPT ![q] = 1]
    /\ iter' = [iter EXCEPT ![q] = 0]
    /\ message' = [message EXCEPT ![q] = NoMessage]
    /\ run_result' = [run_result EXCEPT ![q] = NoRunResult]
    /\ latest_output' = [latest_output EXCEPT ![q] = <<>>]
    /\ task' = [task EXCEPT ![q] = UnsetTask]
    /\ execCount' = [execCount EXCEPT ![q] = 0]
    /\ seen_len' = [seen_len EXCEPT ![q] = 0]
    /\ seen_len_all' = [seen_len_all EXCEPT ![q] = 0]

\* The except clauses of handle_question for an exception e of the main
\* pipeline other than TimeoutError.
ExitWithException(q, e) ==
    /\ IF e = "LLMBalanceDepletionError"
       THEN /\ pc' = [pc EXCEPT ![q] = "raised"]
            /\ task_exc' = [task_exc EXCEPT ![q] = "LLMBalanceDepletionError"]
            /\ UNCHANGED <<file, updates>>
       ELSE /\ pc' = [pc EXCEPT ![q] = "returned"]
            /\ file' = update_result_in_file(file, q,
                          IF e = "RetryError" THEN RetryErrorAnswer
                                              ELSE ExceptionAnswer(e))
            /\ updates' = [updates EXCEPT ![q] = @ + 1]
            /\ UNCHANGED task_exc
    /\ Teardown(q)
    /\ UNCHANGED <<timed_out, fb_fault>>

\* The normal return of handle_question with the pipeline's answer.
ExitWithAnswer(q, answer) ==
    /\ pc' = [pc EXCEPT ![q] = "returned"]
    /\ file' = update_result_in_file(file, q, answer)
    /\ updates' = [updates EXCEPT ![q] = @ + 1]
    /\ Teardown(q)
    /\ UNCHANGED <<task_exc, timed_out, fb_fault>>

\* The TimeoutError clause returns without recording anything.
ExitFromFallback_NoWrite(q, answer) ==
    /\ pc' = [pc EXCEPT ![q] = "returned"]
    /\ Teardown(q)
    /\ UNCHANGED <<file, updates, task_exc, timed_out>>

\* The two returns of the TimeoutError clause.
ExitFromFallback(q, answer) ==
    /\ pc' = [pc EXCEPT ![q] = "returned"]
    /\ file' = update_result_in_file(file, q, answer)
    /\ updates' = [updates EXCEPT ![q] = @ + 1]
    /\ Teardown(q)
    /\ UNCHANGED <<task_exc, timed_out>>

\* ------------------------------------------------- handle_question: entry
fresh_object(heap) == Len(heap) + 1

\* A semaphore that hands out a permit it does not have.
Semaphore_acquire_unbounded(value) == value >= 0

\* asyncio.Semaphore: a permit is handed out only while the value is positive.
Semaphore_acquire(value) == value > 0

\* async with semaphore; coder = Coder(...); solution_space = SolutionSpace(...)
acquire(q) ==
    /\ pc[q] = "waiting"
    /\ Semaphore_acquire(sem)
    /\ sem' = sem - 1
    /\ coders' = Append(coders, NewCoder)
    /\ coderRef' = [coderRef EXCEPT ![q] = fresh_object(coders)]
    /\ spaces' = Append(spaces, NewSolutionSpace)
    /\ ssRef' = [ssRef EXCEPT ![q] = fresh_object(spaces)]
    /\ pc' = [pc EXCEPT ![q] = IF file[q].sue THEN "sue" ELSE "rewriter"]
    /\ UNCHANGED <<unitVars, batchVars, file, task_exc, updates, attempt, frameVars,
                   latest_output, task, execCount, seen_len, seen_len_all,
                   timed_out, fb_fault, billing_raised>>

\* The completion service answered with outcome o.
Completion(o) == billing_raised' = (billing_raised \/ o = "LLMBalanceDepletionError")

\* A stage keeps running: only its position and attempt number change.
Continue(q, newpc, newattempt) ==
    /\ pc' = [pc EXCEPT ![q] = newpc]
    /\ attempt' = [attempt EXCEPT ![q] = newattempt]
    /\ UNCHANGED <<exitVars, hqVars>>

\* ----------------------------------------------------- retry-wrapped stages
\* Rewriter.run, Preprocessor._run_once, Filter.run, Planner.run and
\* Combiner.run share one shape: a completion request under the retry wrapper.
retried_stage(q, stage, next) ==
    /\ pc[q] = stage
    /\ \E o \in env.llm :
          /\ Completion(o)
          /\ IF o = "ok" THEN Continue(q, next, 1) /\ UNCHANGED execVars
             ELSE IF RetryDecision(attempt[q], o) = "again"
             THEN Continue(q, stage, attempt[q] + 1) /\ UNCHANGED execVars
             ELSE ExitWithException(q, RetryRaised(attempt[q], o))
    /\ UNCHANGED <<unitVars, batchVars>>

rewriter_run(q) == retried_stage(q, "rewriter", "preprocessor")
preprocessor_run(q) == retried_stage(q, "preprocessor", "filter")
filter_run(q) == retried_stage(q, "filter", "planner")
planner_run(q) == retried_stage(q, "planner", "draft")
combiner_run(q) == retried_stage(q, "combiner", "postprocessor")

\* Postprocessor.run has no retry wrapper; its registry lookups may raise.
postprocessor_run(q) ==
    /\ pc[q] = "postprocessor"
    /\ \E o \in {"ok", "ToolError"} :
          IF o = "ok" THEN ExitWithAnswer(q, PipelineAnswer(q))
                      ELSE ExitWithException(q, o)
    /\ UNCHANGED <<unitVars, batchVars, billing_raised>>

\* Preprocessor.run reads its argument with .get, which a str does not have.
preprocessor_run_on(argtype) ==
    IF argtype = "PipelineData" THEN "ok" ELSE "AttributeError"

\* pipeline_sue: SuePipeline.run hands the question text to Preprocessor.run.
pipeline_sue(q) ==
    /\ pc[q] = "sue"
    /\ LET r == IF Binds(PreprocessorRunParams, 1, {})
                THEN preprocessor_run_on("str") ELSE "TypeError"
       IN IF r = "ok"
          THEN \E o \in env.llm :
                  /\ Completion(o)
                  /\ IF o = "ok" THEN ExitWithAnswer(q, PipelineAnswer(q))
                     ELSE ExitWithException(q, RetryRaised(STOP_AFTER_ATTEMPT, o))
          ELSE ExitWithException(q, r) /\ UNCHANGED billing_raised
    /\ UNCHANGED <<unitVars, batchVars>>

\* ------------------------------------------------------ Executor.exec_task
parse_python(m) == m.content

InValue(word, evalue) == \E i \in 1..Len(evalue) : evalue[i] = word

\* The test looks for the class in the error name alone.
Malformed_ByName(rr) == rr.ename = "IndentationError"

\* executor.py line 247: the structurally-malformed-code failure class.
Malformed(rr) == rr.ename = "RunCodeException" /\ InValue("IndentationError", rr.evalue)

\* Promotion of successful attempts only.
Promotes_OnSuccess(rr, latest) == rr.success /\ Len(rr.result) > Len(latest)

\* Promotion on ties as well.
Promotes_OnTie(rr, latest) == Len(rr.result) >= Len(latest)

\* executor.py line 251: the promotion test.
Promotes(rr, latest) == Len(rr.result) > Len(latest)

Max(a, b) == IF a >= b THEN a ELSE b

\* The loop runs once more than range(4).
LoopExhausted_OneMore(i) == i + 1 > EXEC_LOOP_RANGE

\* for _ in range(4): the iteration with index i was the last one.
LoopExhausted(i) == i + 1 >= EXEC_LOOP_RANGE

\* A frame of exec_task ends (return, or raise into the retry wrapper).
DropFrame(q) ==
    /\ iter' = [iter EXCEPT ![q] = 0]
    /\ message' = [message EXCEPT ![q] = NoMessage]
    /\ run_result' = [run_result EXCEPT ![q] = NoRunResult]

\* The drafting request that opens every invocation of exec_task.
draft(q) ==
    /\ pc[q] = "draft"
    /\ \E o \in env.llm : Completion(o) /\
          IF o = "ok"
          THEN /\ \E c \in env.codes :
                     message' = [message EXCEPT ![q] = [kind |-> "draft", content |-> c]]
               /\ iter' = [iter EXCEPT ![q] = 0]
               /\ run_result' = [run_result EXCEPT ![q] = NoRunResult]
               /\ Continue(q, "exec", attempt[q])
               /\ UNCHANGED <<latest_output, task, spaces, execCount, seen_len, seen_len_all>>
          ELSE IF RetryDecision(attempt[q], o) = "again"
               THEN /\ DropFrame(q)
                    /\ Continue(q, "draft", attempt[q] + 1)
                    /\ UNCHANGED <<latest_output, task, spaces, execCount,
                                   seen_len, seen_len_all>>
               ELSE ExitWithException(q, RetryRaised(attempt[q], o))
    /\ UNCHANGED <<unitVars, batchVars>>

\* One sandbox execution and everything exec_task does with its result up to
\* its next await.
execute(q) ==
    /\ pc[q] = "exec"
    /\ \E rr \in RunResults(env.texts, env.errors) :
        LET code == parse_python(message[q])
            sp == spaces[ssRef[q]]
        IN
        IF Malformed(rr)
        THEN \* raise IndentationError, into the retry wrapper
             IF RetryDecision(attempt[q], "IndentationError") = "again"
             THEN /\ iter' = [iter EXCEPT ![q] = 0]
                  /\ message' = [message EXCEPT ![q] = NoMessage]
                  /\ run_result' = [run_result EXCEPT ![q] = rr]
                  /\ execCount' = [execCount EXCEPT ![q] = @ + 1]
                  /\ seen_len_all' = [seen_len_all EXCEPT ![q] = Max(@, Len(rr.result))]
                  /\ Continue(q, "draft", attempt[q] + 1)
                  /\ UNCHANGED <<latest_output, task, spaces, seen_len>>
             ELSE ExitWithException(q, RetryRaised(attempt[q], "IndentationError"))
        ELSE /\ execCount' = [execCount EXCEPT ![q] = @ + 1]
             /\ seen_len' = [seen_len EXCEPT ![q] = Max(@, Len(rr.result))]
             /\ seen_len_all' = [seen_len_all EXCEPT ![q] = Max(@, Len(rr.result))]
             /\ IF Promotes(rr, latest_output[q])
                THEN /\ latest_output' = [latest_output EXCEPT ![q] = rr.result]
                     /\ spaces' = [spaces EXCEPT ![ssRef[q]] =
                                      set_executed_code(set_result(sp, rr.result), code)]
                ELSE UNCHANGED <<latest_output, spaces>>
             /\ IF rr.success
                THEN /\ task' = [task EXCEPT ![q] =
                                   [set |-> TRUE, result |-> rr.result,
                                    code |-> code, finished |-> TRUE]]
                     /\ DropFrame(q)
                     /\ Continue(q, "combiner", 1)
                ELSE /\ run_result' = [run_result EXCEPT ![q] = rr]
                     /\ UNCHANGED <<task, iter, message>>
                     /\ Continue(q, "repair", attempt[q])
    /\ UNCHANGED <<unitVars, batchVars, billing_raised>>

\* The repair request that follows a failed execution, and the loop test.
repair(q) ==
    /\ pc[q] = "repair"
    /\ \E o \in env.llm : Completion(o) /\
          IF o = "ok"
          THEN /\ UNCHANGED <<latest_output, spaces, execCount, seen_len, seen_len_all>>
               /\ IF LoopExhausted(iter[q])
                  THEN /\ task' = [task EXCEPT ![q].finished = TRUE]
                       /\ DropFrame(q)
                       /\ Continue(q, "combiner", 1)
                  ELSE /\ \E c \in env.codes :
                             message' = [message EXCEPT ![q] =
                                            [kind |-> "patch", content |-> c]]
                       /\ iter' = [iter EXCEPT ![q] = @ + 1]
                       /\ run_result' = [run_result EXCEPT ![q] = NoRunResult]
                       /\ UNCHANGED task
                       /\ Continue(q, "exec", attempt[q])
          ELSE IF RetryDecision(attempt[q], o) = "again"
               THEN /\ DropFrame(q)
                    /\ Continue(q, "draft", attempt[q] + 1)
                    /\ UNCHANGED <<latest_output, task, spaces, execCount,
                                   seen_len, seen_len_all>>
               ELSE ExitWithException(q, RetryRaised(attempt[q], o))
    /\ UNCHANGED <<unitVars, batchVars>>

\* ------------------------------------------------- timeout and its fallback
MainPipeline == {"rewriter", "preprocessor", "filter", "planner", "draft", "exec",
                 "repair", "combiner", "postprocessor"}

\* asyncio.wait_for cancels the main pipeline when its budget runs out: the
\* pipeline's frames and its Executor are dropped, handle_question keeps the
\* coder and the solution space.
timeout(q) ==
    /\ pc[q] \in MainPipeline
    /\ timed_out' = [timed_out EXCEPT ![q] = TRUE]
    /\ pc' = [pc EXCEPT ![q] = "fallback"]
    /\ attempt' = [attempt EXCEPT ![q] = 1]
    /\ DropFrame(q)
    /\ latest_output' = [latest_output EXCEPT ![q] = <<>>]
    /\ task' = [task EXCEPT ![q] = UnsetTask]
    /\ execCount' = [execCount EXCEPT ![q] = 0]
    /\ seen_len' = [seen_len EXCEPT ![q] = 0]
    /\ seen_len_all' = [seen_len_all EXCEPT ![q] = 0]
    /\ UNCHANGED <<unitVars, batchVars, spaces, exitVars, ssRef, coderRef, fb_fault,
                   billing_raised>>

\* The answer the fallback's combiner composes from the best result and code.
Degraded(sp) == <<"degraded", sp.result, sp.code>>

\* pipeline_timeout: one attempt of its keyword call to Combiner.run, then
\* its positional call to Postprocessor.run.  Whatever is raised here is
\* caught by the bare except of handle_question.
pipeline_timeout(q) ==
    /\ pc[q] = "fallback"
    /\ LET sp == spaces[ssRef[q]]
           call == IF Binds(CombinerRunParams, 0,
                            {"question", "sub_questions_result", "executed_code"})
                   THEN env.llm ELSE {"TypeError"}
       IN \E o \in call : Completion(o) /\
            IF o = "ok"
            THEN /\ ExitFromFallback(q,
                        IF Binds(PostprocessorRunParams, 2, {})
                        THEN TimeoutAnswerWith(Degraded(sp)) ELSE TimeoutAnswer)
                 /\ UNCHANGED fb_fault
            ELSE /\ fb_fault' = [fb_fault EXCEPT ![q] = @ \/ o \in LLMOutcomes]
                 /\ IF RetryDecision(attempt[q], o) = "again"
                    THEN /\ pc' = [pc EXCEPT ![q] = "fallback"]
                         /\ attempt' = [attempt EXCEPT ![q] = @ + 1]
                         /\ UNCHANGED <<exitVars, execVars, ssRef, coderRef, timed_out>>
                    ELSE ExitFromFallback(q, TimeoutAnswer)
    /\ UNCHANGED <<unitVars, batchVars>>

\* The fallback itself runs out of budget.
fallback_timeout(q) ==
    /\ pc[q] = "fallback"
    /\ fb_fault' = [fb_fault EXCEPT ![q] = TRUE]
    /\ ExitFromFallback(q, TimeoutAnswer)
    /\ UNCHANGED <<unitVars, batchVars, billing_raised>>

\* ------------------------------------------------------------------- Next
Next ==
    \/ process_questions
    \/ gather_done
    \/ \E q \in QIds : acquire(q)
    \/ \E q \in QIds : rewriter_run(q)
    \/ \E q \in QIds : preprocessor_run(q)
    \/ \E q \in QIds : filter_run(q)
    \/ \E q \in QIds : planner_run(q)
    \/ \E q \in QIds : draft(q)
    \/ \E q \in QIds : execute(q)
    \/ \E q \in QIds : repair(q)
    \/ \E q \in QIds : combiner_run(q)
    \/ \E q \in QIds : postprocessor_run(q)
    \/ \E q \in QIds : pipeline_sue(q)
    \/ \E q \in QIds : timeout(q)
    \/ \E q \in QIds : pipeline_timeout(q)
    \/ \E q \in QIds : fallback_timeout(q)

Spec == Init /\ [][Next]_vars

SpecBatch == InitBatch /\ [][Next]_vars

\* ------------------------------------------------------------- Coder.run_code
\* No batch is running while a component is exercised on its own.
InitNoBatch ==
    /\ env = [texts |-> TextsUpTo(1), codes |-> Codes,
              errors |-> {c \in ErrorClasses : c.ename = "NameError"},
              llm |-> {"ok"}]
    /\ max_concurrency = 1
    /\ InitRun({AnsweredRecord})

\* The lock is handed out at once although it is held.
Lock_acquire_now_unguarded(l) == TRUE

\* asyncio.Lock.acquire returns at once when the lock is free and nobody waits.
Lock_acquire_now(l) == ~l.locked /\ l.waiters = <<>>

\* asyncio.Lock.release: the lock is free again; the first waiter is woken.
Lock_release(l) == [l EXCEPT !.locked = FALSE]

Without(seq, c) == SelectSeq(seq, LAMBDA x : x # c)

\* run_code up to its first await: the code is wrapped and recorded, then
\* `async with self.lock` either enters _execute_code or queues the caller.
run_code_call(c) ==
    /\ caller_pc[c] = "idle"
    /\ \E code \in env.codes : executed_code' = code
    /\ IF Lock_acquire_now(coder_lock)
       THEN /\ coder_lock' = [coder_lock EXCEPT !.locked = TRUE]
            /\ caller_pc' = [caller_pc EXCEPT ![c] = "executing"]
       ELSE /\ coder_lock' = [coder_lock EXCEPT !.waiters = Append(@, c)]
            /\ caller_pc' = [caller_pc EXCEPT ![c] = "waiting"]
    /\ UNCHANGED <<runVars, caseNumVars, filterVars, preVars, coder_output>>

\* The lock is free and the caller is the first waiter: it enters _execute_code.
lock_granted(c) ==
    /\ caller_pc[c] = "waiting"
    /\ ~coder_lock.locked
    /\ coder_lock.waiters # <<>>
    /\ Head(coder_lock.waiters) = c
    /\ coder_lock' = [locked |-> TRUE, waiters |-> Tail(coder_lock.waiters)]
    /\ caller_pc' = [caller_pc EXCEPT ![c] = "executing"]
    /\ UNCHANGED <<runVars, caseNumVars, filterVars, preVars, executed_code, coder_output>>

\* _execute_code returns: the lock is released, latest_output is recorded and
\* run_code returns the run result.
execute_code_returns(c) ==
    /\ caller_pc[c] = "executing"
    /\ \E rr \in RunResults(env.texts, env.errors) : coder_output' = rr.result
    /\ coder_lock' = Lock_release(coder_lock)
    /\ caller_pc' = [caller_pc EXCEPT ![c] = "idle"]
    /\ UNCHANGED <<runVars, caseNumVars, filterVars, preVars, executed_code>>

\* The caller is cancelled at its await (the timeout of handle_question):
\* a waiter leaves the queue, an executing caller leaves the lock's block.
run_code_cancelled(c) ==
    /\ caller_pc[c] \in {"waiting", "executing"}
    /\ coder_lock' = IF caller_pc[c] = "executing"
                     THEN Lock_release(coder_lock)
                     ELSE [coder_lock EXCEPT !.waiters = Without(@, c)]
    /\ caller_pc' = [caller_pc EXCEPT ![c] = "idle"]
    /\ UNCHANGED <<runVars, caseNumVars, filterVars, preVars, executed_code, coder_output>>

NextCoder ==
    \/ \E c \in Callers : run_code_call(c)
    \/ \E c \in Callers : lock_granted(c)
    \/ \E c \in Callers : execute_code_returns(c)
    \/ \E c \in Callers : run_code_cancelled(c)

InitOnlyCoder == InitNoBatch /\ InitCoder /\ IdleCaseNum /\ IdleFilter /\ IdlePre

SpecCoder == InitOnlyCoder /\ [][NextCoder]_vars

\* ---------------------------------------------------------------- str, re
\* A text is a sequence of characters; a character outside ASCII is written
\* as the romanised name of the character it stands for.
Digits == {"0", "1", "2", "3", "4", "5", "6", "7", "8", "9"}
IsDigit(ch) == ch \in Digits

\* The characters of the range of Chinese characters, 一-龥, in use.
CJK == {"pan", "jue", "nian", "an", "hao", "wan", "min", "zhong", "jing",
        "gong", "si", "you", "xian", "gu", "fen", "sheng", "shi", "lv", "shi1",
        "shi4", "wu", "suo", "fa", "yuan", "zi", "lie", "biao", "quan", "zi1",
        "ren", "zhong1", "ji", "wei", "ti", "gong1", "zhi", "bei",
        "gao", "na", "ji3", "jia", "zui", "ji1", "ceng", "de", "shen", "li",
        "hang", "tian", "ming", "cheng", "yuan2", "he", "yi", "bing"}
IsCJK(ch) == ch \in CJK

Min(a, b) == IF a <= b THEN a ELSE b

\* s[:n] and s[n:] for 0 <= n.
Take(s, n) == SubSeq(s, 1, Min(n, Len(s)))
Drop(s, n) == SubSeq(s, Min(n, Len(s)) + 1, Len(s))

\* s.startswith(p), s.endswith(p), p in s, s.find(p) + 1 (0 when absent).
StartsWith(s, p) == Len(p) <= Len(s) /\ SubSeq(s, 1, Len(p)) = p
EndsWith(s, p) == Len(p) <= Len(s) /\ SubSeq(s, Len(s) - Len(p) + 1, Len(s)) = p
OccursAt(s, p, i) == i >= 1 /\ i + Len(p) - 1 <= Len(s) /\ SubSeq(s, i, i + Len(p) - 1) = p
Contains(s, p) == \E i \in 1..(Len(s) + 1) : OccursAt(s, p, i)
Find(s, p) ==
    IF Contains(s, p)
    THEN CHOOSE i \in 1..(Len(s) + 1) :
            OccursAt(s, p, i) /\ \A j \in 1..(i - 1) : ~OccursAt(s, p, j)
    ELSE 0
RFind(s, p) ==
    IF Contains(s, p)
    THEN CHOOSE i \in 1..(Len(s) + 1) :
            OccursAt(s, p, i) /\ \A j \in (i + 1)..(Len(s) + 1) : ~OccursAt(s, p, j)
    ELSE 0

\* str.replace(old, new, count) for a non-empty old: the first count
\* occurrences, found left to right without overlap.
RECURSIVE Replace(_, _, _, _)
Replace(s, old, new, count) ==
    IF count = 0 \/ Find(s, old) = 0 THEN s
    ELSE LET i == Find(s, old)
         IN Take(s, i - 1) \o new \o Replace(Drop(s, i + Len(old) - 1), old, new, count - 1)

\* str.replace(old, new): every occurrence.
ReplaceAll(s, old, new) == Replace(s, old, new, Len(s))

Remove(s, old) == ReplaceAll(s, old, <<>>)

\* re.sub(r'c+', 'c', s): every run of the character becomes one character.
RECURSIVE CollapseRuns(_, _)
CollapseRuns(s, ch) ==
    IF Len(s) <= 1 THEN s
    ELSE IF s[1] = ch /\ s[2] = ch THEN CollapseRuns(Tail(s), ch)
    ELSE <<s[1]>> \o CollapseRuns(Tail(s), ch)

\* The length of the longest prefix of s made of characters of the class.
RECURSIVE RunLength(_, _)
RunLength(s, class) ==
    IF s = <<>> \/ Head(s) \notin class THEN 0 ELSE 1 + RunLength(Tail(s), class)

RECURSIVE RemoveEach(_, _)
RemoveEach(s, olds) ==
    IF olds = <<>> THEN s ELSE RemoveEach(Remove(s, <<Head(olds)>>), Tail(olds))
\* --------------------------------------------------------- app/law/utils.py
Brackets == <<"[", "]", "lb[", "lb]", "fw(", "fw)", "{", "}">>

\* The step commented "ensure there is only one pair of brackets".
one_bracket_pair(s) ==
    LET first_open == Find(s, <<"(">>)
        last_close == RFind(s, <<")">>)
    IN IF first_open # 0 /\ last_close # 0
       THEN Take(s, first_open - 1) \o <<"(">>
               \o (IF first_open + 1 <= last_close - 1
                   THEN SubSeq(s, first_open + 1, last_close - 1) ELSE <<>>)
               \o <<")">> \o Drop(s, last_close)
       ELSE IF first_open # 0 THEN Remove(s, <<"(">>)
       ELSE IF last_close # 0 THEN Remove(s, <<")">>)
       ELSE s

\* The runs of brackets collapsed before the other brackets are removed.
preprocess_case_num_collapse_first(case_num) ==
    LET s1 == Remove(case_num, <<" ">>)
        s2 == Remove(Remove(s1, <<"fw,">>), <<",">>)
        s3 == Remove(Remove(s2, <<"pan", "jue">>), <<"pan">>)
        s4 == Remove(s3, <<"nian">>)
        s5 == CollapseRuns(CollapseRuns(s4, "("), ")")
    IN one_bracket_pair(RemoveEach(s5, Brackets))

preprocess_case_num(case_num) ==
    LET s1 == Remove(case_num, <<" ">>)
        s2 == Remove(Remove(s1, <<"fw,">>), <<",">>)
        s3 == Remove(Remove(s2, <<"pan", "jue">>), <<"pan">>)
        s4 == Remove(s3, <<"nian">>)
        s5 == RemoveEach(s4, Brackets)
    IN one_bracket_pair(CollapseRuns(CollapseRuns(s5, "("), ")"))

\* re.search(r'^[\(]?(\d+)[\)]?', s): [start of the digits, number of digits,
\* length of the whole match], or no match.
NoMatch == [matched |-> FALSE, from |-> 0, digits |-> 0, len |-> 0]
\* The pattern without its optional opening bracket.
YearMatch_BareOnly(s) ==
    LET n == RunLength(s, Digits)
        close == IF 1 + n <= Len(s) /\ s[1 + n] = ")" THEN 1 ELSE 0
    IN IF n = 0 THEN NoMatch
       ELSE [matched |-> TRUE, from |-> 1, digits |-> n, len |-> n + close]
YearMatch(s) ==
    LET from == IF s # <<>> /\ s[1] = "(" THEN 2 ELSE 1
        n == RunLength(Drop(s, from - 1), Digits)
        close == IF from + n <= Len(s) /\ s[from + n] = ")" THEN 1 ELSE 0
    IN IF n = 0 THEN NoMatch
       ELSE [matched |-> TRUE, from |-> from, digits |-> n, len |-> from - 1 + n + close]

\* The steps of correct_case_num, each applied to the text the step before it
\* left: the year put in brackets, ...
year_in_brackets(case_num, match) ==
    LET year == SubSeq(case_num, match.from, match.from + match.digits - 1)
    IN IF match.matched /\ match.digits = 2
       THEN <<"(", "2", "0">> \o year \o <<")">> \o Drop(case_num, match.len)
       ELSE IF match.matched /\ match.digits = 4
       THEN <<"(">> \o year \o <<")">> \o Drop(case_num, match.len)
       ELSE case_num
\* ... a missing opening bracket added, a missing closing bracket added after
\* the fifth character, ...
with_left_bracket(case_num) ==
    IF ~StartsWith(case_num, <<"(">>) THEN <<"(">> \o case_num ELSE case_num
with_right_bracket(case_num) ==
    IF ~Contains(case_num, <<")">>)
    THEN Take(case_num, 5) \o <<")">> \o Drop(case_num, 5) ELSE case_num
\* ... a final "an" dropped and the terminator "hao" ensured.
without_an(case_num) ==
    IF case_num[Len(case_num)] = "an" THEN Take(case_num, Len(case_num) - 1) ELSE case_num
with_hao(case_num) ==
    IF ~EndsWith(case_num, <<"hao">>) THEN case_num \o <<"hao">> ELSE case_num

correct_case_num(case_num) ==
    with_hao(without_an(with_right_bracket(with_left_bracket(
        year_in_brackets(case_num, YearMatch(case_num))))))

\* extract_case_num: re.match of \((\d+)\)([CJK\d]+?)([CJK]{1,4})(\d+)hao.
\* The year and the number are whole runs of digits; the court code is the
\* shortest that lets the rest match, the case type the longest after it.
None == [matched |-> FALSE]
CaseTypeMax == 4
ElementsAt(rest, k, t) ==
    LET n == RunLength(Drop(rest, k + t), Digits)
    IN /\ k >= 1 /\ t >= 1 /\ k + t <= Len(rest)
       /\ \A i \in 1..k : IsCJK(rest[i]) \/ IsDigit(rest[i])
       /\ \A i \in (k + 1)..(k + t) : IsCJK(rest[i])
       /\ n >= 1
       /\ k + t + n + 1 <= Len(rest)
       /\ rest[k + t + n + 1] = "hao"
\* The lengths a court code can have, and the longest case type after a court
\* code of length k.
CourtCodeLens(rest) ==
    {k \in 1..Len(rest) : \E t \in 1..CaseTypeMax : ElementsAt(rest, k, t)}
LongestCaseType(rest, k) ==
    CHOOSE a \in 1..CaseTypeMax :
       /\ ElementsAt(rest, k, a)
       /\ \A b \in (a + 1)..CaseTypeMax : ~ElementsAt(rest, k, b)
\* match.groups() for a year of y digits, a court code of k characters and a
\* case type of t characters.
Groups(case_num, y, rest, k, t) ==
    LET n == RunLength(Drop(rest, k + t), Digits)
    IN [matched |-> TRUE,
        year |-> SubSeq(case_num, 2, y + 1),
        court_code |-> SubSeq(rest, 1, k),
        case_type |-> SubSeq(rest, k + 1, k + t),
        number |-> SubSeq(rest, k + t + 1, k + t + n)]
ShortestMatch(case_num, y, rest, ks) ==
    IF ks = {} THEN None
    ELSE LET k == CHOOSE a \in ks : \A b \in ks : a <= b
         IN Groups(case_num, y, rest, k, LongestCaseType(rest, k))
MatchAfterYear(case_num, y) ==
    LET opened == case_num # <<>> /\ case_num[1] = "(" /\ y >= 1
                     /\ y + 2 <= Len(case_num) /\ case_num[y + 2] = ")"
    IN IF ~opened THEN None
       ELSE ShortestMatch(case_num, y, Drop(case_num, y + 2),
                          CourtCodeLens(Drop(case_num, y + 2)))
extract_case_num(case_num) ==
    MatchAfterYear(case_num,
                   IF case_num = <<>> THEN 0 ELSE RunLength(Tail(case_num), Digits))

\* re.sub(r'(.)\1+', r'\1', s)
RECURSIVE merge_adjacent_chars(_)
merge_adjacent_chars(s) ==
    IF Len(s) <= 1 THEN s
    ELSE IF s[1] = s[2] THEN merge_adjacent_chars(Tail(s))
    ELSE <<s[1]>> \o merge_adjacent_chars(Tail(s))

YearLen == 4
CaseTypeLimit == 3

\* The product of the variations of the year, the court code and the case type.
Combinations(case_num_element) ==
    LET year_variations ==
            {y \in {merge_adjacent_chars(case_num_element.year), case_num_element.year} :
                Len(y) = YearLen}
        court_code_variations ==
            {merge_adjacent_chars(case_num_element.court_code), case_num_element.court_code}
        case_type_variations ==
            {c \in {merge_adjacent_chars(case_num_element.case_type),
                    case_num_element.case_type} : Len(c) <= CaseTypeLimit}
    IN {<<"(">> \o year \o <<")">> \o court_code \o case_type
           \o case_num_element.number \o <<"hao">> :
           year \in year_variations, court_code \in court_code_variations,
           case_type \in case_type_variations}
\* An empty list returned when the text has no elements.
Augmented_EmptyWhenUnparsed(case_num, case_num_element) ==
    IF ~case_num_element.matched THEN {}
    ELSE {case_num} \cup Combinations(case_num_element)
Augmented(case_num, case_num_element) ==
    IF ~case_num_element.matched THEN {case_num}
    ELSE {case_num} \cup Combinations(case_num_element)
AugmentCorrected(case_num) == Augmented(case_num, extract_case_num(case_num))

\* The list augment_case_num returns, as the set of its elements: the list is
\* built from a set and its order is not determined.
augment_case_num(raw) == AugmentCorrected(correct_case_num(preprocess_case_num(raw)))

\* ----------------------------------------- the case-number functions applied
CaseNumAlphabet == {"1", "2", "(", ")", "[", "jing", "hao", "an"}

SeqsUpTo(S, n) == UNION {[1..k -> S] : k \in 0..n}

\* 22002200 wan 05 min zhong 1584 hao, and other texts of a question.
NoisyCaseNum ==
    <<"2", "2", "0", "0", "2", "2", "0", "0", "wan", "0", "5", "min", "zhong",
      "1", "5", "8", "4", "hao">>
RepairedCaseNum ==
    <<"(", "2", "0", "2", "0", ")", "wan", "0", "5", "min", "zhong",
      "1", "5", "8", "4", "hao">>
SampleCaseNums ==
    {NoisyCaseNum,
     <<"1", "2", "jing", "0", "1", "min", "zhong", "5", "hao">>,
     <<"fw(", "2", "0", "1", "9", "fw)", "jing", "jing", "0", "1", "min", "min",
       "zhong", "5", "hao">>,
     <<"(", "2", "0", "2", "0", ")", "wan", "0", "5", "min", " ", "zhong", "5",
       "hao", "pan", "jue">>,
     <<"lb[", "1", "9", "lb]", "nian", "wan", "0", "5", "min", "zhong", "5", "hao", "an">>,
     <<"{", "(", "(", "2", "0", "1", "9", ")", ")", "}", ",", "fw,", "wan", "1",
       "min", "5">>,
     <<"pan", "nian", "jue", "(", "1">>,
     <<"pan", " ", "jue", ",", "1", ")">>,
     <<"(", "lb[", "(", "1", "fw)", ")">>}
CaseNumInputs == SeqsUpTo(CaseNumAlphabet, MaxCaseNumLen) \cup SampleCaseNums

InitCaseNum ==
    /\ cn_input \in CaseNumInputs
    /\ cn_text = cn_input
    /\ cn_pc = "input"
    /\ cn_aug = {}

\* query_case_num preprocesses the mention's content ...
apply_preprocess_case_num ==
    /\ cn_pc = "input"
    /\ cn_text' = preprocess_case_num(cn_text)
    /\ cn_pc' = "preprocessed"
    /\ UNCHANGED <<runVars, coderVars, filterVars, preVars, cn_input, cn_aug>>

\* ... and corrects it; correct_case_num also stands on its own.
apply_correct_case_num ==
    /\ cn_pc \in {"input", "preprocessed"}
    /\ cn_text' = correct_case_num(cn_text)
    /\ cn_pc' = IF cn_pc = "input" THEN "corrected" ELSE "canonical"
    /\ UNCHANGED <<runVars, coderVars, filterVars, preVars, cn_input, cn_aug>>

\* ... and augments the corrected text; augment_case_num also takes raw text.
apply_augment_case_num ==
    /\ cn_pc \in {"input", "canonical"}
    /\ cn_aug' = augment_case_num(cn_text)
    /\ cn_pc' = IF cn_pc = "input" THEN "augmented" ELSE "candidates"
    /\ UNCHANGED <<runVars, coderVars, filterVars, preVars, cn_input, cn_text>>

NextCaseNum ==
    \/ apply_preprocess_case_num
    \/ apply_correct_case_num
    \/ apply_augment_case_num

InitOnlyCaseNum == InitNoBatch /\ IdleCoder /\ IdleFilter /\ IdlePre /\ InitCaseNum

SpecCaseNum == InitOnlyCaseNum /\ [][NextCaseNum]_vars

\* ------------------------------------------------------ app/preprocessor.py
\* The names of the members of NamedEntityType stand for their Chinese names.
NAMED_ENTITY_TYPE_SET ==
    {"CASE_NUM", "LAWFIRM_NAME", "COMPANY_FULL_NAME", "COMPANY_ABBR_NAME",
     "COMPANY_CODE", "COMPANY_UNIFIED_SOCIAL_CREDIT_CODE", "COURT_NAME",
     "LOCATION_NAME"}

\* qwergpt.utils: has_digits, no_digits, all_digits.
has_digits(s) == \E i \in DOMAIN s : IsDigit(s[i])
no_digits(s) == ~has_digits(s)
all_digits(s) == s # <<>> /\ \A i \in DOMAIN s : IsDigit(s[i])

\* One object of the list the completion service answers with: its keys and,
\* for the keys it has, the values of type and content.
Entity(keys, type, content) == [keys |-> keys, type |-> type, content |-> content]

Placeholders == {<<"wei", "ti", "gong1">>, <<"wei", "zhi">>}
GenericContents ==
    {<<"gong", "si">>, <<"zi", "gong", "si">>, <<"zi", "gong", "si", "lie", "biao">>,
     <<"quan", "zi1", "zi", "gong", "si">>, <<"fa", "yuan">>,
     <<"fa", "yuan", "ming", "cheng">>, <<"ren", "min", "fa", "yuan">>,
     <<"zhong1", "ji", "ren", "min", "fa", "yuan">>}
LitigantWords == {<<"yuan2", "gao">>, <<"bei", "gao">>}
CourtQueryPhrases ==
    {<<"na", "ji3", "jia">>, <<"zui", "ji1", "ceng", "de">>, <<"shen", "li", "fa", "yuan">>}
MinContentLen == 4

\* The body of filter_entities' loop: the entity is appended, not skipped.
Kept(e) ==
    /\ e.content # <<>>
    /\ \A p \in Placeholders : ~Contains(e.content, p)
    /\ e.content \notin GenericContents
    /\ e.type = "LAWFIRM_NAME" => \A w \in LitigantWords : ~Contains(e.content, w)
    /\ e.type = "COURT_NAME" =>
          /\ \A p \in CourtQueryPhrases : ~Contains(e.content, p)
          /\ Contains(e.content, <<"fa", "yuan">>)
          /\ ~has_digits(e.content)
          /\ Len(e.content) >= MinContentLen
    /\ e.type = "CASE_NUM" =>
          /\ ~no_digits(e.content)
          /\ ~Contains(e.content, <<"fa", "yuan">>)
          /\ Len(e.content) >= MinContentLen
    /\ e.type \in {"COMPANY_UNIFIED_SOCIAL_CREDIT_CODE", "COMPANY_CODE"} =>
          ~no_digits(e.content)

\* remove_duplicates keeping the last entity of each (type, content) pair.
remove_duplicates_keep_last(filtered_entities) ==
    LET keep == {i \in DOMAIN filtered_entities :
                    \A j \in (i + 1)..Len(filtered_entities) :
                        <<filtered_entities[j].type, filtered_entities[j].content>>
                            # <<filtered_entities[i].type, filtered_entities[i].content>>}
        F[i \in 0..Len(filtered_entities)] ==
            IF i = 0 THEN <<>>
            ELSE IF i \in keep THEN Append(F[i - 1], filtered_entities[i]) ELSE F[i - 1]
    IN F[Len(filtered_entities)]

\* remove_duplicates: seen holds the (type, content) pairs met so far.
remove_duplicates(filtered_entities) ==
    LET F[i \in 0..Len(filtered_entities)] ==
            IF i = 0 THEN [seen |-> {}, unique_entities |-> <<>>]
            ELSE LET entity == filtered_entities[i]
                     identifier == <<entity.type, entity.content>>
                 IN IF identifier \notin F[i - 1].seen
                    THEN [seen |-> F[i - 1].seen \cup {identifier},
                          unique_entities |-> Append(F[i - 1].unique_entities, entity)]
                    ELSE F[i - 1]
    IN F[Len(filtered_entities)].unique_entities

filter_entities(recognized) ==
    LET wellFormed(e) ==
            /\ "content" \in e.keys
            /\ "type" \in e.keys
            /\ e.type \in NAMED_ENTITY_TYPE_SET
            /\ Cardinality(e.keys) = 2
    IN remove_duplicates(SelectSeq(SelectSeq(recognized, wellFormed), Kept))

\* ------------------------------------------------ filter_entities applied
TC == {"type", "content"}
SixDigits == <<"1", "2", "1", "2", "1", "2">>
JiaGongSi == <<"jia", "gong", "si">>
CaseNum12 == <<"1", "2", "jing", "0", "1", "min", "zhong", "5", "hao">>
FilterPool ==
    {Entity(TC, "COMPANY_FULL_NAME", JiaGongSi),
     Entity(TC, "COMPANY_ABBR_NAME", JiaGongSi),
     Entity({"type"}, "COMPANY_FULL_NAME", <<>>),
     Entity(TC \cup {"reason"}, "COMPANY_FULL_NAME", JiaGongSi),
     Entity(TC, "QUESTION", JiaGongSi),
     Entity(TC, "COMPANY_ABBR_NAME", <<>>),
     Entity(TC, "COMPANY_FULL_NAME", <<"gong", "si">>),
     Entity(TC, "LOCATION_NAME", <<"wei", "zhi">>),
     Entity(TC, "LAWFIRM_NAME", <<"yuan2", "gao", "lv", "shi1", "shi4", "wu", "suo">>),
     Entity(TC, "COURT_NAME", <<"jia", "shi", "fa", "yuan">>),
     Entity(TC, "COURT_NAME", <<"wan", "0", "1", "fa", "yuan">>),
     Entity(TC, "COURT_NAME", <<"jia", "fa", "yuan">>),
     Entity(TC, "CASE_NUM", CaseNum12),
     Entity(TC, "CASE_NUM", <<"min", "zhong", "jing", "hao">>),
     Entity(TC, "COMPANY_CODE", SixDigits),
     Entity(TC, "COMPANY_CODE", JiaGongSi)}

InitFilter ==
    /\ flt_input \in SeqsUpTo(FilterPool, MaxEntities)
    /\ flt_output = <<>>
    /\ flt_pc = "input"

apply_filter_entities ==
    /\ flt_pc = "input"
    /\ flt_output' = filter_entities(flt_input)
    /\ flt_pc' = "filtered"
    /\ UNCHANGED <<runVars, coderVars, caseNumVars, preVars, flt_input>>

NextFilter == apply_filter_entities

InitOnlyFilter == InitNoBatch /\ IdleCoder /\ IdleCaseNum /\ IdlePre /\ InitFilter

SpecFilter == InitOnlyFilter /\ [][NextFilter]_vars

\* ------------------------------------------------ the lookups of a mention
\* One request to the store: the table, the field sent and its value, and what
\* a hit of it does: the field of the record it takes the standardized text
\* from (none: the mention's own content) and the type it gives the mention.
Lookup(table, key, value, field, type) ==
    [table |-> table, key |-> key, value |-> value, field |-> field, type |-> type]
FromContent == "content"
SameType == "same"

\* The orders a list built from a set can have.
Orderings(S) ==
    {s \in [1..Cardinality(S) -> S] : \A i, j \in DOMAIN s : i # j => s[i] # s[j]}

\* The elements of a list, and a list given to a comprehension.
Range(s) == {s[i] : i \in DOMAIN s}
Map(s, Op(_)) ==
    LET F[i \in 0..Len(s)] == IF i = 0 THEN <<>> ELSE Append(F[i - 1], Op(s[i]))
    IN F[Len(s)]

\* preprocess_xzgxf_case_num
preprocess_xzgxf_case_num(case_num) ==
    LET s1 == Remove(case_num, <<" ">>)
        s2 == ReplaceAll(ReplaceAll(s1, <<"[">>, <<"fw(">>), <<"]">>, <<"fw)">>)
        s3 == ReplaceAll(ReplaceAll(s2, <<"lb[">>, <<"fw(">>), <<"lb]">>, <<"fw)">>)
    IN ReplaceAll(ReplaceAll(s3, <<"(">>, <<"fw(">>), <<")">>, <<"fw)">>)

\* case_num.replace('(', fw().replace(')', fw))
FullWidth(case_num) ==
    ReplaceAll(ReplaceAll(case_num, <<"(">>, <<"fw(">>), <<")">>, <<"fw)">>)

\* augment_company_name_by_python, as the set its list is built from.
augment_company_name_by_python(company_name_list) ==
    Range(company_name_list)
        \cup {Replace(n, <<"shi">>, <<>>, 1) : n \in Range(company_name_list)}
        \cup {Replace(n, <<"sheng">>, <<>>, 1) : n \in Range(company_name_list)}

\* The name a law firm's name without its qualifier is completed to, if any.
LawfirmSuffix == <<"shi4", "wu", "suo">>
LawfirmCompleted(lawfirm_name) ==
    LET prefix == Take(lawfirm_name, Len(lawfirm_name) - Len(LawfirmSuffix))
    IN IF EndsWith(lawfirm_name, LawfirmSuffix) /\ ~Contains(prefix, <<"lv", "shi1">>)
       THEN <<prefix \o <<"lv", "shi1">> \o LawfirmSuffix>>
       ELSE <<>>

\* Preprocessor.augment_lawfirm_name, as the set its list is built from.
augment_lawfirm_name(lawfirm_name_list) ==
    Range(lawfirm_name_list)
        \cup UNION {Range(LawfirmCompleted(n)) : n \in Range(lawfirm_name_list)}

AbbrMaxLen == 4
StockCodeLen == 6
CodeMaxLen == 10
ShortNameMaxLen == 5

\* query_named_entity and the head of the query it dispatches to: the type the
\* mention leaves with.
CorrectedType(mention) ==
    LET t1 == IF Len(mention.content) = StockCodeLen /\ all_digits(mention.content)
              THEN "COMPANY_CODE" ELSE mention.type
    IN IF t1 = "COMPANY_FULL_NAME" /\ Len(mention.content) <= AbbrMaxLen
       THEN "COMPANY_ABBR_NAME"
       ELSE IF t1 = "COMPANY_CODE" /\ Len(mention.content) > CodeMaxLen
       THEN "COMPANY_UNIFIED_SOCIAL_CREDIT_CODE"
       ELSE t1

\* query_case_num: every request it can make, in order, for one order of the
\* augmented list.
CaseNumLookups(mention_content, augmented_case_num_list) ==
    LET case_num == correct_case_num(preprocess_case_num(mention_content))
        doc(v) == Lookup("legal_document", "case_num", v, "case_num", "LegalDoc_CASE_NUM")
        abstract(v) ==
            Lookup("legal_abstract", "case_num", v, "case_num", "LegalAbstract_CASE_NUM")
        docAsAbstract(v) ==
            Lookup("legal_document", "case_num", FullWidth(v), "case_num",
                   "LegalAbstract_CASE_NUM")
        xzgxf(v) ==
            Lookup("xzgxf_info", "case_num", preprocess_xzgxf_case_num(v), "case_num",
                   "XzgxfInfo_CASE_NUM")
        last == IF augmented_case_num_list = <<>> THEN FullWidth(case_num)
                ELSE FullWidth(augmented_case_num_list[Len(augmented_case_num_list)])
    IN <<doc(case_num)>> \o Map(augmented_case_num_list, doc)
          \o <<abstract(FullWidth(case_num))>> \o Map(augmented_case_num_list, docAsAbstract)
          \o <<xzgxf(last)>> \o Map(augmented_case_num_list, xzgxf)

\* The requests a query makes before it asks the completion service for other
\* names; a case number's requests need no other names.
FirstLookups(type, content) ==
    IF type = "COMPANY_ABBR_NAME"
    THEN {<<Lookup("company_info", "company_abbr", content, "company_abbr", SameType)>>}
    ELSE IF type = "COMPANY_FULL_NAME"
    THEN {<<Lookup("company_register", "company_name", content, "company_name", SameType)>>}
    ELSE IF type = "COMPANY_UNIFIED_SOCIAL_CREDIT_CODE"
    THEN {<<Lookup("company_register_name", "credit_code", content, FromContent, SameType)>>}
    ELSE IF type = "COMPANY_CODE"
    THEN {<<Lookup("company_info", "company_code", content, FromContent, SameType)>>}
    ELSE IF type = "CASE_NUM"
    THEN UNION {{CaseNumLookups(content, l) : l \in Orderings(augment_case_num(case_num))} :
                  case_num \in {correct_case_num(preprocess_case_num(content))}}
    ELSE IF type = "LAWFIRM_NAME"
    THEN {<<Lookup("lawfirm_info", "lawfirm_name", content, "lawfirm_name", SameType)>>}
    ELSE IF type = "COURT_NAME"
    THEN {<<Lookup("court_info", "court_name", content, "court_name", SameType)>>}
    ELSE {<<>>}

\* The queries that go on with names of the completion service.
AsksForNames(type) ==
    type \in {"COMPANY_ABBR_NAME", "COMPANY_FULL_NAME", "LAWFIRM_NAME", "COURT_NAME"}

\* The listed-company table asked before the register for a company name.
LaterLookups_InfoFirst(type, name, augmented_name_list) ==
    LET register(v) == Lookup("company_register", "company_name", v, "company_name", SameType)
        info(v) == Lookup("company_info", "company_name", v, "company_name", SameType)
        lawfirm(v) == Lookup("lawfirm_info", "lawfirm_name", v, "lawfirm_name", SameType)
        court(v) == Lookup("court_info", "court_name", v, "court_name", SameType)
        abbr(v) == Lookup("company_info", "company_abbr", v, "company_abbr", SameType)
    IN IF type = "COMPANY_ABBR_NAME"
       THEN {Map(l, abbr) : l \in Orderings(augment_company_name_by_python(augmented_name_list))}
       ELSE IF type = "COMPANY_FULL_NAME"
       THEN {<<info(name)>> \o Map(l, info) \o Map(l, register) :
                l \in Orderings(augment_company_name_by_python(augmented_name_list))}
       ELSE IF type = "LAWFIRM_NAME"
       THEN {Map(l, lawfirm) : l \in Orderings(augment_lawfirm_name(augmented_name_list))}
       ELSE {Map(augmented_name_list, court)}

\* The requests a query makes once augment_name_by_llm has answered.
LaterLookups(type, name, augmented_name_list) ==
    LET abbr(v) == Lookup("company_info", "company_abbr", v, "company_abbr", SameType)
        register(v) == Lookup("company_register", "company_name", v, "company_name", SameType)
        info(v) == Lookup("company_info", "company_name", v, "company_name", SameType)
        lawfirm(v) == Lookup("lawfirm_info", "lawfirm_name", v, "lawfirm_name", SameType)
        court(v) == Lookup("court_info", "court_name", v, "court_name", SameType)
        short(v) == Len(v) <= ShortNameMaxLen
        withOwn ==
            augmented_name_list
               \o (IF merge_adjacent_chars(name) # name
                   THEN <<merge_adjacent_chars(name)>> ELSE <<>>)
               \o (IF Len(name) > 2 /\ EndsWith(name, <<"gong", "si">>)
                   THEN <<Take(name, Len(name) - 2)>> ELSE <<>>)
               \o (IF Len(name) > 4 /\ EndsWith(name, <<"you", "xian", "gong", "si">>)
                   THEN <<Take(name, Len(name) - 4)
                            \o <<"gu", "fen", "you", "xian", "gong", "si">>>>
                   ELSE <<>>)
    IN IF type = "COMPANY_ABBR_NAME"
       THEN {Map(l, abbr) : l \in Orderings(augment_company_name_by_python(augmented_name_list))}
       ELSE IF type = "COMPANY_FULL_NAME"
       THEN {Map(l, register) \o <<info(name)>> \o Map(l, info) \o <<abbr(name)>>
                \o Map(SelectSeq(l, short), abbr) :
                l \in Orderings(augment_company_name_by_python(withOwn))}
       ELSE IF type = "LAWFIRM_NAME"
       THEN {Map(l, lawfirm) :
                l \in Orderings(augment_lawfirm_name(
                                    augmented_name_list \o LawfirmCompleted(name)))}
       ELSE {Map(augmented_name_list, court)}

\* ------------------------------------------------- Preprocessor._run_once
\* A mention is an entity that lives through filter_entities; resolution adds
\* the keys standardized and found to it.
AsMention(e) == [keys |-> e.keys, type |-> e.type, content |-> e.content,
                 standardized |-> <<>>, found |-> FALSE]

Record(value) == [empty |-> FALSE, value |-> value]

\* What the store can hold under a name it is asked for: that name, or a
\* registered form that differs from it.
Registered(value) == <<"quan">> \o value
StoreValues(value) == {value, Registered(value)}
StoreOutcomes == {"miss", "hit", "TransientError"}

\* What the completion service can answer when asked for other names.
AugmentedNames(name) == {<<>>, <<<<"sheng">> \o name>>}

JiaShiFaYuan == <<"jia", "shi", "fa", "yuan">>
JiaShiWuSuo == <<"jia", "shi4", "wu", "suo">>
JiaYiBingGongSi == <<"jia", "yi", "bing", "gong", "si">>
CreditCode == <<"9", "1", "1", "2", "1", "2", "1", "2", "1", "2", "X">>
PrePool ==
    {Entity(TC, "COMPANY_FULL_NAME", JiaGongSi),
     Entity(TC, "LOCATION_NAME", JiaGongSi),
     Entity(TC, "COMPANY_FULL_NAME", JiaYiBingGongSi),
     Entity(TC, "COMPANY_CODE", SixDigits),
     Entity(TC, "COMPANY_CODE", CreditCode),
     Entity(TC, "CASE_NUM", CaseNum12),
     Entity(TC, "LAWFIRM_NAME", JiaShiWuSuo),
     Entity(TC, "COURT_NAME", JiaShiFaYuan)}
PreQuestion ==
    JiaGongSi \o <<"he">> \o JiaGongSi \o <<"de">> \o CaseNum12 \o <<"he">>
       \o JiaShiWuSuo \o JiaYiBingGongSi \o SixDigits \o JiaShiFaYuan
PreQuestions == {PreQuestion}

\* _run_once is called with a question; the completion service will recognize
\* pre_raw in it.
InitPre ==
    /\ pre_pc = "recognize"
    /\ pre_attempt = 1
    /\ pre_arg \in PreQuestions
    /\ pre_raw \in SeqsUpTo(PrePool, MaxMentions)
    /\ pre_question = pre_arg
    /\ named_entities = <<>>
    /\ queried_set = {}
    /\ queries = <<>>
    /\ pre_i = 1
    /\ pre_lookups = <<>>
    /\ pre_asked = FALSE
    /\ res_json = Empty
    /\ NER = {}
    /\ pre_result = [query |-> <<>>, ner |-> {}]
    /\ pre_exc = "none"

\* An exception leaves _run_once: tenacity calls it again with the same
\* question, or gives up.
RunOnceRaises(e) ==
    /\ IF RetryDecision(pre_attempt, e) = "again"
       THEN /\ pre_attempt' = pre_attempt + 1
            /\ pre_pc' = "recognize"
            /\ pre_exc' = "none"
       ELSE /\ pre_attempt' = pre_attempt
            /\ pre_pc' = "raised"
            /\ pre_exc' = RetryRaised(pre_attempt, e)
    /\ pre_question' = pre_arg
    /\ named_entities' = <<>>
    /\ queried_set' = {}
    /\ queries' = <<>>
    /\ pre_i' = 1
    /\ pre_lookups' = <<>>
    /\ pre_asked' = FALSE
    /\ NER' = {}
    /\ UNCHANGED <<pre_arg, pre_raw, res_json, pre_result>>

\* recognize_named_entity answers, and filter_entities is applied to the answer.
recognize(out) ==
    /\ pre_pc = "recognize"
    /\ IF out = "ok"
       THEN /\ named_entities' = Map(filter_entities(pre_raw), AsMention)
            /\ queried_set' = {}
            /\ pre_i' = 1
            /\ pre_pc' = "resolve"
            /\ UNCHANGED <<pre_attempt, pre_arg, pre_raw, pre_question, queries,
                           pre_lookups, pre_asked, res_json, NER, pre_result, pre_exc>>
       ELSE RunOnceRaises(out)
    /\ UNCHANGED <<runVars, coderVars, caseNumVars, filterVars>>

\* query_named_entity returns: the first loop goes on with the next mention.
QueryReturns ==
    /\ pre_i' = pre_i + 1
    /\ pre_lookups' = <<>>
    /\ pre_asked' = FALSE
    /\ pre_pc' = "resolve"

\* The standardized text of a mention whose query has yet to run, left empty.
InitialStandardized_Empty(content) == <<>>

\* named_entity['standardized'] = named_entity['content']
InitialStandardized(content) == content

\* One turn of the first loop of _run_once, up to the first request of the
\* query it starts.
resolve_next ==
    /\ pre_pc = "resolve"
    /\ IF pre_i > Len(named_entities)
       THEN /\ pre_pc' = "rewrite"
            /\ pre_i' = 1
            /\ NER' = {}
            /\ UNCHANGED <<named_entities, queried_set, queries, pre_lookups, pre_asked>>
       ELSE IF named_entities[pre_i].content \in queried_set
       THEN /\ pre_i' = pre_i + 1
            /\ UNCHANGED <<pre_pc, named_entities, queried_set, queries, pre_lookups,
                           pre_asked, NER>>
       ELSE LET named_entity == named_entities[pre_i]
                corrected == CorrectedType(named_entity)
            IN /\ queried_set' = queried_set \cup {named_entity.content}
               /\ queries' = Append(queries, named_entity.content)
               /\ named_entities' =
                     [named_entities EXCEPT ![pre_i] =
                         [named_entity EXCEPT !.keys = @ \cup {"standardized"},
                                              !.standardized =
                                                  InitialStandardized(named_entity.content),
                                              !.type = corrected]]
               /\ \E lookups \in FirstLookups(corrected, named_entity.content) :
                     IF lookups = <<>>
                     THEN QueryReturns
                     ELSE /\ pre_lookups' = lookups
                          /\ pre_asked' = FALSE
                          /\ pre_pc' = "post"
                          /\ pre_i' = pre_i
               /\ NER' = NER
    /\ UNCHANGED <<pre_attempt, pre_arg, pre_raw, pre_question, res_json, pre_result, pre_exc>>
    /\ UNCHANGED <<runVars, coderVars, caseNumVars, filterVars>>

\* The standardized text after a hit, taken from the name that was asked for.
Standardized_Candidate(request, content, value) ==
    IF request.field = FromContent THEN content ELSE request.value

\* The standardized text after a hit: the record's field, or for the two
\* kinds of code the code itself.
Standardized(request, content, value) ==
    IF request.field = FromContent THEN content ELSE value

\* The store answers the request in progress.
post_returns(out) ==
    /\ pre_pc = "post"
    /\ LET request == Head(pre_lookups)
           named_entity == named_entities[pre_i]
       IN IF out = "hit"
          THEN \E value \in StoreValues(request.value) :
                  /\ res_json' = Record(value)
                  /\ named_entities' =
                        [named_entities EXCEPT ![pre_i] =
                            [named_entity EXCEPT
                                !.keys = @ \cup {"found"},
                                !.found = TRUE,
                                !.standardized =
                                    Standardized(request, named_entity.content, value),
                                !.type =
                                    IF request.type = SameType THEN @ ELSE request.type]]
                  /\ QueryReturns
                  /\ UNCHANGED <<pre_attempt, pre_arg, pre_raw, pre_question, queried_set,
                                 queries, NER, pre_result, pre_exc>>
          ELSE IF out = "miss"
          THEN /\ res_json' = Empty
               /\ IF Tail(pre_lookups) # <<>>
                  THEN /\ pre_lookups' = Tail(pre_lookups)
                       /\ UNCHANGED <<pre_pc, pre_i, pre_asked>>
                  ELSE IF AsksForNames(named_entity.type) /\ ~pre_asked
                  THEN /\ pre_pc' = "augment"
                       /\ pre_lookups' = <<>>
                       /\ UNCHANGED <<pre_i, pre_asked>>
                  ELSE QueryReturns
               /\ UNCHANGED <<pre_attempt, pre_arg, pre_raw, pre_question, named_entities,
                              queried_set, queries, NER, pre_result, pre_exc>>
          ELSE RunOnceRaises(out)
    /\ UNCHANGED <<runVars, coderVars, caseNumVars, filterVars>>

\* augment_name_by_llm answers.
augment_returns(out) ==
    /\ pre_pc = "augment"
    /\ IF out = "ok"
       THEN LET named_entity == named_entities[pre_i]
            IN \E names \in AugmentedNames(named_entity.content) :
               \E lookups \in LaterLookups(named_entity.type, named_entity.content, names) :
                  /\ IF lookups = <<>>
                     THEN QueryReturns
                     ELSE /\ pre_lookups' = lookups
                          /\ pre_asked' = TRUE
                          /\ pre_pc' = "post"
                          /\ pre_i' = pre_i
                  /\ UNCHANGED <<pre_attempt, pre_arg, pre_raw, pre_question, named_entities,
                                 queried_set, queries, res_json, NER, pre_result, pre_exc>>
       ELSE RunOnceRaises(out)
    /\ UNCHANGED <<runVars, coderVars, caseNumVars, filterVars>>

\* NER[type] = standardized
NERWith(ner, type, standardized) ==
    {p \in ner : p[1] # type} \cup {<<type, standardized>>}

\* question.replace(content, standardized) without its count.
replace_every(question, content, standardized) ==
    ReplaceAll(question, content, standardized)

\* question.replace(content, standardized, 1)
replace_once(question, content, standardized) ==
    Replace(question, content, standardized, 1)

\* One turn of the second loop of _run_once, and its return.
rewrite_next ==
    /\ pre_pc = "rewrite"
    /\ IF pre_i > Len(named_entities)
       THEN /\ pre_result' = [query |-> pre_question, ner |-> NER]
            /\ pre_pc' = "returned"
            /\ UNCHANGED <<pre_i, NER, pre_question>>
       ELSE LET named_entity == named_entities[pre_i]
            IN /\ pre_i' = pre_i + 1
               /\ IF "standardized" \notin named_entity.keys
                  THEN UNCHANGED <<NER, pre_question>>
                  ELSE /\ NER' = IF "found" \in named_entity.keys
                                 THEN NERWith(NER, named_entity.type, named_entity.standardized)
                                 ELSE NER
                       /\ pre_question' = replace_once(pre_question, named_entity.content,
                                                       named_entity.standardized)
               /\ UNCHANGED <<pre_pc, pre_result>>
    /\ UNCHANGED <<pre_attempt, pre_arg, pre_raw, named_entities, queried_set, queries,
                   pre_lookups, pre_asked, res_json, pre_exc>>
    /\ UNCHANGED <<runVars, coderVars, caseNumVars, filterVars>>

PreLLMOutcomes == {"ok", "TransientError", "LLMBalanceDepletionError"}

NextPre ==
    \/ \E out \in PreLLMOutcomes : recognize(out)
    \/ resolve_next
    \/ \E out \in StoreOutcomes : post_returns(out)
    \/ \E out \in PreLLMOutcomes : augment_returns(out)
    \/ rewrite_next

InitOnlyPre == InitNoBatch /\ IdleCoder /\ IdleCaseNum /\ IdleFilter /\ InitPre

SpecPre == InitOnlyPre /\ [][NextPre]_vars

\* _run_once called with a question whose mentions carry a doubled character,
\* one mention for each kind of entity that is resolved by name.
JiaJiaYiGongSi == <<"jia", "jia", "yi", "gong", "si">>
JiaJiaYi == <<"jia", "jia", "yi">>
JiaJiaShiWuSuo == <<"jia", "jia", "shi4", "wu", "suo">>
JiaJiaFaYuan == <<"jia", "jia", "fa", "yuan">>
DoubledPool ==
    {Entity(TC, "COMPANY_FULL_NAME", JiaJiaYiGongSi),
     Entity(TC, "COMPANY_FULL_NAME", JiaJiaYi),
     Entity(TC, "LAWFIRM_NAME", JiaJiaShiWuSuo),
     Entity(TC, "COURT_NAME", JiaJiaFaYuan)}
DoubledQuestion ==
    JiaJiaYiGongSi \o <<"he">> \o JiaJiaYi \o <<"de">> \o JiaJiaShiWuSuo \o <<"he">>
       \o JiaJiaFaYuan

InitPreDoubled ==
    /\ pre_pc = "recognize"
    /\ pre_attempt = 1
    /\ pre_arg = DoubledQuestion
    /\ pre_raw \in SeqsUpTo(DoubledPool, MaxMentions)
    /\ pre_question = pre_arg
    /\ named_entities = <<>>
    /\ queried_set = {}
    /\ queries = <<>>
    /\ pre_i = 1
    /\ pre_lookups = <<>>
    /\ pre_asked = FALSE
    /\ res_json = Empty
    /\ NER = {}
    /\ pre_result = [query |-> <<>>, ner |-> {}]
    /\ pre_exc = "none"

InitOnlyPreDoubled == InitNoBatch /\ IdleCoder /\ IdleCaseNum /\ IdleFilter /\ InitPreDoubled

SpecPreDoubled == InitOnlyPreDoubled /\ [][NextPre]_vars

TypeOK ==
    /\ bpc \in {"start", "gather", "exited"}
    /\ sem \in 0..max_concurrency
    /\ \A q \in QIds : attempt[q] \in 1..STOP_AFTER_ATTEMPT
    /\ \A q \in QIds : iter[q] \in 0..(EXEC_LOOP_RANGE - 1)
    /\ \A q \in QIds : execCount[q] \in 0..(STOP_AFTER_ATTEMPT * EXEC_LOOP_RANGE)

\* ================================================================ claims
InSection(q) == pc[q] \in MainPipeline \cup {"sue", "fallback"}
InExecTask(q) == pc[q] \in {"draft", "exec", "repair"}
Best(q) == spaces[ssRef[q]]
ExecReturned(q) == pc[q] \in {"combiner", "postprocessor"}

\* The failure class of the claims, spelled out from the run result's fields.
MalformedClass(rr) ==
    /\ rr.ename = "RunCodeException"
    /\ \E i \in DOMAIN rr.evalue : rr.evalue[i] = "IndentationError"

\* q's step is a sandbox execution after which handle_question is still running.
Executed(q) == execCount'[q] = execCount[q] + 1

\* The result text of the execution q's step has just made.
AttemptResult(q) == IF task'[q].set THEN task'[q].result ELSE run_result'[q].result

\* C1 (as stated): between a task's first draft and its terminal state the
\* sandbox is asked to execute code at most 4 times in total.
C1_Original == \A q \in QIds : execCount[q] <= EXEC_LOOP_RANGE

\* C1 (amended): one invocation of exec_task asks for at most 4 executions,
\* and the retry wrapper invokes exec_task at most 3 times, so a task is
\* executed at most 12 times in total.
C1_Amended ==
    \A q \in QIds :
        /\ execCount[q] <= STOP_AFTER_ATTEMPT * EXEC_LOOP_RANGE
        /\ InExecTask(q) =>
              execCount[q] <= (attempt[q] - 1) * EXEC_LOOP_RANGE + iter[q]
                                 + (IF pc[q] = "repair" THEN 1 ELSE 0)

C1_Witness == \E q \in QIds : execCount[q] = STOP_AFTER_ATTEMPT * EXEC_LOOP_RANGE

C3_Original ==
    [][\A q \in QIds :
        (Executed(q) /\ Len(AttemptResult(q)) > Len(Best(q).result))
           => /\ spaces'[ssRef[q]].result = AttemptResult(q)
              /\ spaces'[ssRef[q]].code = message[q].content
    ]_vars

\* C3 (amended): after every execution attempt that does not report the
\* malformed-code class, a result strictly longer than the best result becomes
\* the best result, and the attempt's code the best code; an attempt of the
\* malformed class leaves the SolutionSpace as it was.
C3_Amended ==
    [][\A q \in QIds :
        /\ (Executed(q) /\ ~MalformedClass(run_result'[q])
                /\ Len(AttemptResult(q)) > Len(Best(q).result))
              => /\ spaces'[ssRef[q]].result = AttemptResult(q)
                 /\ spaces'[ssRef[q]].code = message[q].content
        /\ (Executed(q) /\ MalformedClass(run_result'[q]))
              => spaces'[ssRef[q]] = spaces[ssRef[q]]
    ]_vars

C3_Witness ==
    \E q \in QIds : /\ pc[q] = "repair"
                    /\ Len(run_result[q].result) > 0
                    /\ Best(q).result = run_result[q].result
                    /\ Best(q).code = message[q].content

\* C4: the best result of a question never gets shorter, and the stored
\* result and code change only when the new result is strictly longer.
C4_BestNeverShrinks ==
    [][\A q \in QIds :
        (ssRef[q] # 0 /\ ssRef'[q] = ssRef[q])
           => /\ Len(spaces'[ssRef[q]].result) >= Len(spaces[ssRef[q]].result)
              /\ spaces'[ssRef[q]] # spaces[ssRef[q]]
                    => Len(spaces'[ssRef[q]].result) > Len(spaces[ssRef[q]].result)
    ]_vars

\* An attempt has just tied with a different text and other code: both kept.
C4_Witness ==
    \E q \in QIds : /\ pc[q] = "repair"
                    /\ Len(run_result[q].result) = Len(Best(q).result)
                    /\ run_result[q].result # Best(q).result
                    /\ message[q].content # Best(q).code
                    /\ Len(Best(q).result) = 1

\* C5: an execution reporting the malformed-code class is followed by no
\* repair request: exec_task raises at once, and any later execution of the
\* task runs the reply to a fresh drafting request.
C5_FastFail ==
    [][\A q \in QIds :
        /\ (Executed(q) /\ MalformedClass(run_result'[q]))
              => /\ pc'[q] = "draft"
                 /\ attempt'[q] = attempt[q] + 1
                 /\ message'[q] = NoMessage
        /\ pc'[q] = "repair" => ~MalformedClass(run_result'[q])
        /\ (pc[q] = "exec" /\ pc'[q] = "returned") => file'[q].answer = RetryErrorAnswer
        /\ (pc[q] = "draft" /\ pc'[q] = "exec") => message'[q].kind = "draft"
        /\ (Executed(q) /\ iter[q] = 0) => message[q].kind = "draft"
    ]_vars

C5_Witness ==
    \E q \in QIds : /\ pc[q] = "exec"
                    /\ attempt[q] = 2
                    /\ execCount[q] = 1
                    /\ message[q].kind = "draft"
                    /\ seen_len_all[q] > seen_len[q]

\* C6: when the main pipeline has timed out and no collaborator of the
\* fallback failed or was too slow, the answer written to the record carries
\* the degraded answer composed from the best result and the best code.
C6_DegradedAnswerWritten ==
    [][\A q \in QIds :
        (pc[q] = "fallback" /\ pc'[q] = "returned" /\ ~fb_fault'[q])
           => file'[q].answer = TimeoutAnswerWith(Degraded(spaces[ssRef[q]]))
    ]_vars

\* C7: every question that handle_question finished without the billing error
\* had its answer written: the pipeline's answer, or an error string with the
\* error prefix, the latter whenever the main pipeline timed out.
C7_AnswerAlwaysWritten ==
    \A q \in QIds :
        (pc[q] = "returned")
           => /\ updates[q] = 1
              /\ task_exc[q] = "none"
              /\ file[q].answer = PipelineAnswer(q) \/ StartsWithError(file[q].answer)
              /\ timed_out[q] => StartsWithError(file[q].answer)

C7_Witness ==
    \E q \in QIds : /\ pc[q] = "returned"
                    /\ timed_out[q]
                    /\ fb_fault[q]
                    /\ updates[q] = 1
                    /\ file[q].answer = TimeoutAnswer

\* C8: if the billing error was raised while any question was handled, the
\* run ends with BALANCE_DEPLETION_EXIT_CODE, not with normal completion.
C8_BillingExitCode ==
    /\ (bpc = "exited" /\ billing_raised) => exit_code = BALANCE_DEPLETION_EXIT_CODE
    /\ (bpc = "exited" /\ ~billing_raised) => exit_code = NORMAL_EXIT_CODE

C8_Witness ==
    /\ bpc = "exited"
    /\ billing_raised
    /\ exit_code = BALANCE_DEPLETION_EXIT_CODE
    /\ \E q \in QIds : pc[q] = "returned" /\ file[q].answer = PipelineAnswer(q)

\* C9 (as stated): once the billing error has been raised, no question starts,
\* runs a further stage or writes an answer.
C9_Original ==
    [][billing_raised => (pc' = pc /\ attempt' = attempt /\ file' = file)]_vars

\* C9 (amended): once the billing error has been raised for a question, that
\* question writes no answer, and the run ends with the billing exit code only
\* after every other scheduled question has finished.
C9_Amended ==
    [][/\ \A q \in QIds : task_exc[q] = "LLMBalanceDepletionError"
                             => (file'[q] = file[q] /\ pc'[q] = "raised" /\ updates'[q] = 0)
       /\ exit_code' # -1 => \A q \in QIds : pc'[q] \in {"skipped", "returned", "raised"}
       /\ (billing_raised /\ bpc' = "exited") => exit_code' = BALANCE_DEPLETION_EXIT_CODE
    ]_vars

C9_Witness ==
    \E q1, q2 \in QIds : /\ task_exc[q1] = "LLMBalanceDepletionError"
                         /\ pc[q2] = "postprocessor"
                         /\ bpc = "gather"

\* C10: at most max_concurrency questions are inside the semaphore section,
\* a waiting question stays out while no permit is free, and the questions
\* in the section use distinct, live coders and distinct solution spaces.
C10_BoundedConcurrency ==
    /\ Cardinality({q \in QIds : InSection(q)}) <= max_concurrency
    /\ Cardinality({q \in QIds : InSection(q)}) + sem = max_concurrency
    /\ \A q \in QIds : InSection(q) =>
          /\ coderRef[q] \in 1..Len(coders)
          /\ ssRef[q] \in 1..Len(spaces)
          /\ ~coders[coderRef[q]].shutdown
    /\ \A q1, q2 \in QIds : (q1 # q2 /\ InSection(q1) /\ InSection(q2)) =>
          (coderRef[q1] # coderRef[q2] /\ ssRef[q1] # ssRef[q2])

C10_Witness ==
    /\ sem = 0
    /\ \E q \in QIds : pc[q] = "waiting"
    /\ \E q \in QIds : InSection(q)

\* C11: for one Coder at most one _execute_code call is in progress at any
\* time, it runs under the lock, and a caller begins executing only while no
\* other caller is executing.
C11_OneExecutionAtATime ==
    [][/\ Cardinality({c \in Callers : caller_pc'[c] = "executing"}) <= 1
       /\ (\E c \in Callers : caller_pc'[c] = "executing") => coder_lock'.locked
       /\ \A c \in Callers :
             (caller_pc[c] # "executing" /\ caller_pc'[c] = "executing")
                => \A d \in Callers : caller_pc[d] # "executing"
    ]_vars

C11_Witness ==
    \E c, d \in Callers : /\ caller_pc[c] = "executing"
                          /\ caller_pc[d] = "waiting"
                          /\ Len(coder_lock.waiters) = 2

\* C12: a batch run handles a record if and only if its answer is empty or
\* begins with the error prefix; a record with any other answer is skipped,
\* stays skipped, and its answer is never changed by the run.
C12_OnlyPendingHandled ==
    [][\A q \in QIds :
        /\ (bpc = "start" /\ bpc' = "gather")
              => /\ pc'[q] = "waiting" <=> (file[q].answer = <<>>
                                             \/ (Len(file[q].answer) > 0
                                                 /\ file[q].answer[1] = ERROR_PREFIX))
                 /\ pc'[q] \in {"waiting", "skipped"}
                 /\ file' = file
        /\ (pc[q] = "idle" /\ pc'[q] # "idle") => bpc = "start"
        /\ pc[q] = "skipped" => (pc'[q] = "skipped" /\ file'[q] = file[q])
        /\ file'[q] # file[q] => pc[q] \notin {"idle", "skipped", "waiting", "returned", "raised"}
    ]_vars

C12_Witness ==
    /\ bpc = "exited"
    /\ pc[1] = "returned"
    /\ updates[1] = 1
    /\ \E q \in QIds : pc[q] = "skipped" /\ file[q].answer = PriorAnswer /\ updates[q] = 0

\* The mention the loop in progress is at.
Current == named_entities[pre_i]

\* The step is a turn of the second loop of _run_once for a mention.
Rewrites == pre_pc = "rewrite" /\ pre_i <= Len(named_entities) /\ pre_i' = pre_i + 1

\* q2 is q with its first occurrence of c, if it has one, replaced by std and
\* everything else as it was.
FirstOnly(q, c, std, q2) ==
    IF \A i \in 1..Len(q) : ~OccursAt(q, c, i)
    THEN q2 = q
    ELSE \E i \in 1..Len(q) :
            /\ OccursAt(q, c, i)
            /\ \A j \in 1..(i - 1) : ~OccursAt(q, c, j)
            /\ q2 = SubSeq(q, 1, i - 1) \o std \o SubSeq(q, i + Len(c), Len(q))

\* C13: the rewrite step of a mention replaces at most one occurrence of the
\* mention's content, the first one in the question text as it stands, with
\* its standardized form; every other part of the text, further occurrences
\* of the same content included, is left as it was.
C13_FirstOccurrenceOnly ==
    [][Rewrites =>
          IF "standardized" \in Current.keys
          THEN FirstOnly(pre_question, Current.content, Current.standardized, pre_question')
          ELSE pre_question' = pre_question]_vars

C13_Witness ==
    /\ pre_pc = "returned"
    /\ Len(named_entities) = 1
    /\ named_entities[1].content = JiaGongSi
    /\ named_entities[1].standardized = <<"quan">> \o JiaGongSi
    /\ pre_arg = JiaGongSi \o <<"he">> \o JiaGongSi \o Drop(pre_arg, 7)
    /\ pre_result.query = <<"quan">> \o pre_arg

\* C14: once the first loop is over, the lookups have run at most once for
\* each content, and two mentions of identical content carry the same
\* standardized value and the same found flag.
C14_SharedResolution ==
    pre_pc \in {"rewrite", "returned"} =>
        /\ \A i, j \in DOMAIN queries : queries[i] = queries[j] => i = j
        /\ \A i, j \in DOMAIN named_entities :
              named_entities[i].content = named_entities[j].content =>
                  /\ "standardized" \in named_entities[i].keys
                  /\ "standardized" \in named_entities[j].keys
                  /\ named_entities[i].standardized = named_entities[j].standardized
                  /\ ("found" \in named_entities[i].keys) = ("found" \in named_entities[j].keys)

\* The step is a request of the store that comes back with a record.
Hits == pre_pc = "post" /\ ~res_json'.empty /\ pre_i' = pre_i + 1

\* C15 (as stated): for every entity kind, whenever a lookup returns a record
\* the mention is marked found and its standardized value is the value of the
\* record's authoritative field.
C15_Original ==
    [][Hits =>
          /\ "found" \in named_entities'[pre_i].keys
          /\ named_entities'[pre_i].standardized = res_json'.value]_vars

\* C15 (amended): whenever a lookup returns a record the mention is marked
\* found; for a company name, a company abbreviation, a case number, a law
\* firm and a court its standardized value is the value of the record's
\* authoritative field, and for a stock code and a unified credit code it is
\* the mention's own content.
C15_Amended ==
    [][Hits =>
          /\ "found" \in named_entities'[pre_i].keys
          /\ named_entities'[pre_i].standardized =
                IF Current.type \in {"COMPANY_CODE", "COMPANY_UNIFIED_SOCIAL_CREDIT_CODE"}
                THEN Current.content
                ELSE res_json'.value]_vars

C15_Witness ==
    /\ pre_pc = "resolve"
    /\ pre_i = 2
    /\ named_entities[1].type = "LAWFIRM_NAME"
    /\ "found" \in named_entities[1].keys
    /\ res_json = [empty |-> FALSE, value |-> <<"quan">> \o JiaShiWuSuo]
    /\ named_entities[1].standardized = <<"quan">> \o JiaShiWuSuo

\* The mention has been through its query and no lookup of it has hit.
Unresolved(m) == "standardized" \in m.keys /\ "found" \notin m.keys

\* C16: a mention whose lookups all come back empty keeps standardized equal
\* to its content and is not marked found; its rewrite step enters nothing in
\* the NER map and leaves the question text as it was; and a step of a query
\* raises only for an error of the store or of the completion service.
C16_MissIsNotAnError ==
    [][/\ \A i \in DOMAIN named_entities' :
             Unresolved(named_entities'[i]) =>
                 named_entities'[i].standardized = named_entities'[i].content
       /\ (Rewrites /\ Unresolved(Current)) => (NER' = NER /\ pre_question' = pre_question)
       /\ (pre_pc \in {"post", "augment"} /\ pre_pc' = "raised") =>
             pre_exc' \in {"RetryError", "LLMBalanceDepletionError"}
       /\ (pre_pc = "post" /\ pre_pc' = "resolve" /\ res_json'.empty) =>
             (Unresolved(named_entities'[pre_i]) /\ pre_exc' = "none")]_vars

C16_Witness ==
    /\ pre_pc = "returned"
    /\ Len(named_entities) = 1
    /\ named_entities[1].type = "COMPANY_FULL_NAME"
    /\ Unresolved(named_entities[1])
    /\ named_entities[1].standardized = named_entities[1].content
    /\ Contains(pre_arg, named_entities[1].content)
    /\ pre_result = [query |-> pre_arg, ner |-> {}]
    /\ pre_asked = FALSE
    /\ res_json = [empty |-> TRUE, value |-> <<>>]

\* The first place of an entity in the list filter_entities was given.
FirstIndex(e) ==
    CHOOSE i \in DOMAIN flt_input :
        flt_input[i] = e /\ \A j \in 1..(i - 1) : flt_input[j] # e

\* C17: the list filter_entities returns has no two entries with the same
\* (type, content) pair; each entry is the first occurrence of itself in the
\* list given, and the entries are in the order of the list given.
C17_FirstOfEachPairKept ==
    flt_pc = "filtered" =>
        /\ \A i, j \in DOMAIN flt_output :
              (flt_output[i].type = flt_output[j].type
                 /\ flt_output[i].content = flt_output[j].content) => i = j
        /\ \A i \in DOMAIN flt_output : \E j \in DOMAIN flt_input : flt_input[j] = flt_output[i]
        /\ \A i, j \in DOMAIN flt_output :
              i < j => FirstIndex(flt_output[i]) < FirstIndex(flt_output[j])

C17_Witness ==
    /\ flt_pc = "filtered"
    /\ Len(flt_input) = 3
    /\ flt_input[1] = flt_input[3]
    /\ flt_input[1].type # flt_input[2].type
    /\ flt_input[1].content = flt_input[2].content
    /\ flt_output = <<flt_input[1], flt_input[2]>>

\* The number of times a character occurs in a text.
Count(s, ch) == Cardinality({i \in DOMAIN s : s[i] = ch})

\* The text opens with the two digits d1 d2, bare or after an opening bracket,
\* and no third digit follows them.
LeadsWith(s, d1, d2) ==
    \E o \in {0, 1} :
        /\ Len(s) >= o + 2
        /\ o = 1 => s[1] = "("
        /\ s[o + 1] = d1 /\ s[o + 2] = d2
        /\ Len(s) >= o + 3 => ~IsDigit(s[o + 3])

\* C18: augment_case_num applied to the raw text 22002200 wan 05 min zhong
\* 1584 hao returns a set that includes (2020) wan 05 min zhong 1584 hao.
C18_DoubledNoiseRepaired ==
    (cn_pc = "augmented" /\ cn_input = NoisyCaseNum) => RepairedCaseNum \in cn_aug

\* C19: for every input x, correct_case_num(preprocess_case_num(x)) ends with
\* hao and holds exactly one opening and exactly one closing bracket, the
\* opening bracket being its first character and standing before the closing
\* one.
C19_OneBracketPair ==
    cn_pc = "canonical" =>
        /\ EndsWith(cn_text, <<"hao">>)
        /\ Count(cn_text, "(") = 1
        /\ Count(cn_text, ")") = 1
        /\ cn_text[1] = "("
        /\ Find(cn_text, <<"(">>) < Find(cn_text, <<")">>)

\* C20: whenever correct_case_num is given a text whose leading run of digits,
\* bare or after an opening bracket, is exactly two digits dd, the text it
\* returns begins with (20dd).
C20_TwoDigitYear ==
    [][(cn_pc' \in {"corrected", "canonical"} /\ cn_pc \notin {"corrected", "canonical"}) =>
          \A d1, d2 \in Digits :
              LeadsWith(cn_text, d1, d2) =>
                  StartsWith(cn_text', <<"(", "2", "0", d1, d2, ")">>)]_vars

C20_Witness ==
    /\ cn_pc = "corrected"
    /\ cn_input = <<"1", "2", "jing", "0", "1", "min", "zhong", "5", "hao">>
    /\ cn_text = <<"(", "2", "0", "1", "2", ")", "jing", "0", "1", "min", "zhong", "5", "hao">>

\* C21: preprocess_case_num is idempotent: applied to a text it has returned,
\* it returns that text unchanged.
C21_PreprocessIdempotent ==
    cn_pc = "preprocessed" => preprocess_case_num(cn_text) = cn_text

\* A text that preprocess_case_num changed, brackets and noise words included.
C21_Witness ==
    /\ cn_pc = "preprocessed"
    /\ cn_input = <<"{", "(", "(", "2", "0", "1", "9", ")", ")", "}", ",", "fw,", "wan", "1",
                    "min", "5">>
    /\ cn_text = <<"(", "2", "0", "1", "9", ")", "wan", "1", "min", "5">>

\* C22: the set augment_case_num returns for a text contains the canonical
\* form of that text, whether or not the canonical form has elements.
C22_CanonicalAmongCandidates ==
    cn_pc = "augmented" => correct_case_num(preprocess_case_num(cn_input)) \in cn_aug

\* A text whose canonical form has elements and is one of several candidates.
C22_Witness ==
    /\ cn_pc = "augmented"
    /\ extract_case_num(correct_case_num(preprocess_case_num(cn_input))).matched
    /\ Cardinality(cn_aug) >= 2
    /\ correct_case_num(preprocess_case_num(cn_input)) \in cn_aug

\* C23: a repair request is in flight only when its reply will be executed:
\* within one run of the loop at most EXEC_LOOP_RANGE - 1 repair requests are
\* sent, and none after the last failed execution of the loop.
C23_RepairOnlyWhenExecuted ==
    \A q \in QIds : pc[q] = "repair" => ~LoopExhausted(iter[q])

\* The values asked of a table among the requests still to make.
AskedOf(lookups, table) ==
    {lookups[i].value : i \in {j \in DOMAIN lookups : lookups[j].table = table}}

\* The query of the mention in progress goes on with a request or with the
\* request for other names.
Continues == pre_pc' \in {"post", "augment"}

\* C24: a cascade stops at its first non-empty result, with no further lookup
\* and no request for other names for that mention; and for a company name
\* every candidate is asked of the company register before anything is asked
\* of the listed-company table.
C24_StopAtFirstHit ==
    [][/\ Hits => pre_pc' = "resolve" /\ pre_lookups' = <<>>
       /\ Continues => "found" \notin named_entities'[pre_i'].keys
       /\ (Continues /\ named_entities'[pre_i'].type = "COMPANY_FULL_NAME") =>
             /\ \A i, j \in DOMAIN pre_lookups' :
                   (pre_lookups'[i].table = "company_info"
                       /\ pre_lookups'[j].table = "company_register") => j < i
             /\ (pre_pc = "augment" /\ pre_pc' = "post") =>
                   AskedOf(pre_lookups', "company_info")
                      \subseteq AskedOf(pre_lookups', "company_register")
                                   \cup {named_entities'[pre_i'].content}
      ]_vars

\* Every candidate of a company name has missed in the register and the
\* listed-company table is asked, after an earlier mention was found.
C24_Witness ==
    /\ pre_pc = "post"
    /\ pre_i = 2
    /\ "found" \in named_entities[1].keys
    /\ named_entities[2].type = "COMPANY_FULL_NAME"
    /\ pre_asked
    /\ Head(pre_lookups).table = "company_info"
    /\ AskedOf(pre_lookups, "company_register") = {}

\* The positions of the operations that run under the retry wrapper in the
\* main pipeline; the fallback runs Combiner.run under it as well.
RetriedStages ==
    {"rewriter", "preprocessor", "filter", "planner", "draft", "exec", "repair", "combiner"}

\* C25: a retried operation is attempted at most STOP_AFTER_ATTEMPT times; it
\* is attempted again only from the start of the same operation and not after
\* the billing error, which propagates with no further attempt and no answer;
\* and the retry-exhausted error is recorded as the question's error answer
\* only after the last attempt has failed.
C25_BoundedRetries ==
    [][\A q \in QIds :
          /\ attempt'[q] <= STOP_AFTER_ATTEMPT
          /\ attempt'[q] > attempt[q] =>
                /\ pc[q] \in RetriedStages \cup {"fallback"}
                /\ attempt'[q] = attempt[q] + 1
                /\ pc'[q] = (IF InExecTask(q) THEN "draft" ELSE pc[q])
                /\ billing_raised' = billing_raised
                /\ task_exc'[q] = task_exc[q]
                /\ file'[q] = file[q]
          /\ (pc[q] \in RetriedStages /\ ~billing_raised /\ billing_raised') =>
                /\ pc'[q] = "raised"
                /\ task_exc'[q] = "LLMBalanceDepletionError"
                /\ file'[q] = file[q]
          /\ (pc[q] \in RetriedStages /\ updates'[q] # updates[q]
                /\ file'[q].answer = RetryErrorAnswer) =>
                /\ attempt[q] = STOP_AFTER_ATTEMPT
                /\ pc'[q] = "returned"
      ]_vars

\* A question whose stage failed three times and left the retry-exhausted
\* error as its answer.
C25_Witness ==
    \E q \in QIds :
       /\ pc[q] = "returned"
       /\ updates[q] = 1
       /\ file[q].answer = RetryErrorAnswer
       /\ ~billing_raised

\* The query of the mention in progress has its names from the completion
\* service and goes on with the requests that are left to it, or returns.
NamesAnswered ==
    /\ pre_pc = "augment"
    /\ pre_pc' \in {"post", "resolve"}
    /\ pre_attempt' = pre_attempt

\* C26: for a company name, a company abbreviation, a law firm and a court,
\* once the lookup of the mention's own content has missed, the content with
\* its doubled adjacent characters collapsed is among the values the query
\* asks the store for before it returns without a record.
C26_CollapsedVariantTried ==
    [][NamesAnswered =>
          merge_adjacent_chars(Current.content)
              \in {Current.content} \cup {pre_lookups'[i].value : i \in DOMAIN pre_lookups'}
      ]_vars

\* Executor.run: the answer of the sub-question it hands on to the combiner.
SubQuestionAnswer(q) == latest_output[q]

\* C27: whenever a task's execution has succeeded, the answer Executor.run
\* hands on for the sub-question is that task's result, the output of the
\* successful attempt, whatever the failed attempts before it printed.
C27_AnswerIsTaskResult ==
    \A q \in QIds :
        (pc[q] = "combiner" /\ task[q].set) => SubQuestionAnswer(q) = task[q].result

\* The table a case-number tag names.
TableOfTag(type) ==
    IF type = "LegalDoc_CASE_NUM" THEN "legal_document"
    ELSE IF type = "LegalAbstract_CASE_NUM" THEN "legal_abstract"
    ELSE IF type = "XzgxfInfo_CASE_NUM" THEN "xzgxf_info"
    ELSE "none"

\* C28: query_case_num gives a mention the tag of a table only when the
\* non-empty record that resolved it was returned by a lookup in that table;
\* so every augmented candidate of the legal-abstract phase is looked up in
\* the legal-abstract table.
C28_TagFromItsTable ==
    [][(Hits /\ Current.type = "CASE_NUM") =>
          Head(pre_lookups).table = TableOfTag(named_entities'[pre_i].type)
      ]_vars

\* C29: the update_result_in_file calls of questions handled concurrently
\* never lose or corrupt a record: the file keeps the same records in the same
\* order, a record changes only by the call of its own question, which counts
\* as that question's update and leaves every other field and every other
\* record as it was, and the answer it then carries is that question's own:
\* its pipeline's answer or an error answer.
C29_NoLostUpdate ==
    [][/\ DOMAIN file' = DOMAIN file
       /\ \A q \in QIds :
             /\ file'[q] # file[q] =>
                   /\ updates'[q] = updates[q] + 1
                   /\ file'[q] = [file[q] EXCEPT !.answer = file'[q].answer]
                   /\ file'[q].answer = PipelineAnswer(q) \/ StartsWithError(file'[q].answer)
             /\ updates'[q] = updates[q] + 1 =>
                   /\ \A r \in QIds \ {q} : file'[r] = file[r]
                   /\ pc'[q] = "returned"
             /\ (updates[q] >= 1 /\ updates'[q] = updates[q]) => file'[q] = file[q]
    ]_vars

C29_Witness ==
    /\ max_concurrency = 2
    /\ bpc = "exited"
    /\ \A q \in QIds : /\ pc[q] = "returned"
                       /\ updates[q] = 1
                       /\ file[q].answer = PipelineAnswer(q)

\* The question text together with, for each of its characters, whether it
\* stands where the original question had it or was put in by a substitution.
\* prev after the substitution of one mention at position i of the text.
SubstitutedAt(prev, named_entity, i) ==
    [text |-> Take(prev.text, i - 1) \o named_entity.standardized
                 \o Drop(prev.text, i + Len(named_entity.content) - 1),
     original |-> Take(prev.original, i - 1)
                     \o [j \in 1..Len(named_entity.standardized) |-> FALSE]
                     \o Drop(prev.original, i + Len(named_entity.content) - 1)]

\* A mention left with its own content as standardized text puts nothing in.
Substituted(prev, named_entity) ==
    IF \/ "standardized" \notin named_entity.keys
       \/ named_entity.standardized = named_entity.content
       \/ Find(prev.text, named_entity.content) = 0
    THEN prev
    ELSE SubstitutedAt(prev, named_entity, Find(prev.text, named_entity.content))

\* The text and its marks once the first k mentions have had their turn of the
\* second loop.
RECURSIVE Provenance(_)
Provenance(k) ==
    IF k = 0
    THEN [text |-> pre_arg, original |-> [j \in 1..Len(pre_arg) |-> TRUE]]
    ELSE Substituted(Provenance(k - 1), named_entities[k])

\* The occurrence the substitution of the mention will take is made of
\* characters of the original question only.
LandsOnOriginal(marked, named_entity, i) ==
    /\ marked.text = pre_question
    /\ i # 0 => \A j \in i..(i + Len(named_entity.content) - 1) : marked.original[j]

\* C30: in the second loop a mention's substitution never touches text that
\* the substitution of an earlier mention put in: the occurrence of the raw
\* content it replaces by a different standardized text was already there in
\* the original question.
C30_LandsOnOriginalText ==
    (/\ pre_pc = "rewrite"
     /\ pre_i <= Len(named_entities)
     /\ "standardized" \in Current.keys
     /\ Current.standardized # Current.content)
        => LandsOnOriginal(Provenance(pre_i - 1), Current, Find(pre_question, Current.content))

====
